---- MODULE Spec2Model ----
(***************************************************************************)
(* Real-Estate-Valuation: the durable URL queue (scraper/url_queue.py),    *)
(* the detail-scraper workers (scraper/rew_detail_scraper.py) and the      *)
(* property resolver (scraper/property_utils.py) as a state machine over  *)
(* the committed PostgreSQL tables and each worker's position in its loop. *)
(***************************************************************************)
EXTENDS Integers, Sequences, FiniteSets, TLC

\* ------------------------------------------------------------------ bounds
NumUrls    == 2   \* distinct listing URLs the catalogue can show
NumWorkers == 2   \* detail-scraper processes running main()
NumAddrs   == 1   \* distinct canonical addresses the listings can carry
BatchSize  == 2   \* batch_size handed to dequeue_next_batch (main passes 5)
MaxEnqLen  == 3   \* longest url list handed to enqueue_urls
MaxPending == 3   \* rows of the pre-filled queue of the claim-only scenario
NumProps   == 2   \* property ids a field map can carry
MaxBeds    == 2   \* largest bedroom count a field map can carry
NumUpserts == 2   \* upsert_listing calls of the upsert scenario
MaxStreetLen == 3 \* longest street string of the resolution scenario
MaxPostalLen == 2 \* longest postal code string of the resolution scenario
NumYears   == 2   \* assessment years of the merge scenario (ending with 2023)
MaxFacts   == 3   \* longest fact list handed to a merge
MaxPage    == 4   \* pages of the catalog a discovery run walks
MaxTextLen == 1   \* longest url / street / city string handed to validation
MaxPriceLen == 3  \* longest price string handed to validation
MaxAssessments == 2 \* most assessments in one parsed payload
MaxSales   == 1   \* most sales in one parsed payload
NumIngests == 2   \* ingestions of the item in the facts scenario
NumProducers == 2 \* discovery processes enqueueing at the same time

\* ------------------------------------------------------- program constants
MAX_SCRAPE_ATTEMPTS == 5
MAX_RETRIES_PER_PAGE == 3
MAX_CONSECUTIVE_FAILED_PAGES == 3
BACKOFF_BASE_SECONDS == 2
BACKOFF_MAX_SECONDS == 30

Urls    == 1..NumUrls
Workers == 1..NumWorkers
Addrs   == 1..NumAddrs
Producers == 1..NumProducers

NULL     == 0

\* ------------------------------------------------------------------- state
VARIABLES
  queue,       \* table rew_listing_urls: sequence of rows, id = position
  now,         \* the clock NOW() reads; it advances with every discovery batch
  properties,  \* table properties: sequence of rows, id = position
  listings,    \* table rew_listings: sequence of rows, id = position
  pc,          \* worker -> position in main()'s loop
  cand,        \* worker -> rows of the claim's snapshot not yet visited
  picked,      \* worker -> rows locked FOR UPDATE by the running claim
  batch,       \* worker -> claimed rows not yet marked done / error
  cur,         \* worker -> [id, addr, prop] of the item in the pipeline
  claims,      \* history: id -> number of claims that returned the row
  fails,       \* history: id -> number of mark_failed calls on the row
  fetches,     \* history: id -> number of crawler.arun calls for the row
  enq_in,      \* the url list of the enqueue_urls call under test
  enq_before,  \* the queue before that call
  enq_ret,     \* its return value (-1 while it has not returned)
  fn_in,       \* the arguments of the function call(s) under test
  fn_out,      \* what the call(s) returned so far
  dpc,         \* where discover_all is: "off", "fetch", "enqueue", "done"
  page,        \* discover_all: the page index being processed
  attempt,     \* fetch_page_with_retries: the attempt being made
  consecutive_failed_pages,
  listing_urls,\* discover_all: the URLs collected so far
  inserted,    \* discover_all: its return value (-1 while running)
  catalog,     \* the site: per page, the attempts that fail and the URLs shown
  requests,    \* every crawler.arun made, as <<page, attempt>>
  enq_calls,   \* discover_all: the url lists it handed to enqueue_urls
  tbl_assessments, \* table assessments
  tbl_sales,       \* table sales
  tbl_characteristics, \* table property_characteristics
  ppc,         \* per producer: "off", "insert", "wait", "done", "failed"
  p_urls,      \* per producer: the list handed to enqueue_urls
  p_pos,       \* per producer: the VALUES tuple the INSERT is at
  p_ins,       \* per producer: the urls inserted, not yet committed
  p_wait,      \* per producer: the producer whose transaction it waits for
  p_ret        \* per producer: what enqueue_urls returned (-1: not yet)

queueVars  == <<queue, now>>
dbVars     == <<properties, listings>>
workerVars == <<pc, cand, picked, batch, cur>>
histVars   == <<claims, fails, fetches>>
enqVars    == <<enq_in, enq_before, enq_ret>>
fnVars     == <<fn_in, fn_out>>
discVars   == <<dpc, page, attempt, consecutive_failed_pages, listing_urls,
               inserted, catalog, requests, enq_calls>>
factVars   == <<tbl_assessments, tbl_sales, tbl_characteristics>>
prodVars   == <<ppc, p_urls, p_pos, p_ins, p_wait, p_ret>>
scnVars    == <<enqVars, fnVars, discVars, factVars, prodVars>>
vars == <<queue, now, properties, listings, pc, cand, picked, batch, cur,
          claims, fails, fetches, enq_in, enq_before, enq_ret, fn_in, fn_out,
          dpc, page, attempt, consecutive_failed_pages, listing_urls,
          inserted, catalog, requests, enq_calls, tbl_assessments,
          tbl_sales, tbl_characteristics,
          ppc, p_urls, p_pos, p_ins, p_wait, p_ret>>

\* ------------------------------------------------------------ small helpers
Min(a, b) == IF a < b THEN a ELSE b

RECURSIVE SumOver(_, _)
SumOver(S, f) ==
  IF S = {} THEN 0
  ELSE LET x == CHOOSE y \in S : TRUE IN f[x] + SumOver(S \ {x}, f)

Ids(q) == DOMAIN q
UrlsOf(q) == {q[i].url : i \in Ids(q)}
Range(f) == {f[x] : x \in DOMAIN f}

\* ------------------------------------------------------ rew_listing_urls
\* A fresh row: status 'pending', attempts 0, discovered_at NOW(), the rest NULL.
RewListingUrl(u, t) ==
  [url |-> u, status |-> "pending", attempts |-> 0, discovered_at |-> t,
   last_attempt_at |-> NULL, last_error |-> ""]

\* Mutant: ON CONFLICT (url) DO UPDATE, the row of a known url starts over.
RECURSIVE InsertOnConflictDoUpdate(_, _, _, _)
InsertOnConflictDoUpdate(q, urls, t, n) ==
  IF urls = <<>> THEN [rows |-> q, rowcount |-> n]
  ELSE LET u == Head(urls)
           dup == \E i \in Ids(q) : q[i].url = u
       IN IF dup
          THEN InsertOnConflictDoUpdate(
                 [i \in Ids(q) |->
                    IF q[i].url = u THEN RewListingUrl(u, t) ELSE q[i]],
                 Tail(urls), t, n)
          ELSE InsertOnConflictDoUpdate(Append(q, RewListingUrl(u, t)),
                                        Tail(urls), t, n + 1)

\* INSERT ... VALUES (one tuple per list element) ON CONFLICT (url) DO NOTHING:
\* the tuples are tried in order, a tuple whose url is already in the table
\* (also when put there by an earlier tuple of the same statement) is dropped.
RECURSIVE InsertOnConflictDoNothing(_, _, _, _)
InsertOnConflictDoNothing(q, urls, t, n) ==
  IF urls = <<>> THEN [rows |-> q, rowcount |-> n]
  ELSE LET u == Head(urls)
           dup == \E i \in Ids(q) : q[i].url = u
       IN IF dup
          THEN InsertOnConflictDoNothing(q, Tail(urls), t, n)
          ELSE InsertOnConflictDoNothing(Append(q, RewListingUrl(u, t)),
                                         Tail(urls), t, n + 1)

\* Mutant: the call reports len(urls) instead of the statement's rowcount.
enqueue_urlsLenCount(q, urls, t) ==
  [rows |-> InsertOnConflictDoNothing(q, urls, t, 0).rows, rowcount |-> Len(urls)]

enqueue_urls(q, urls, t) ==
  IF urls = <<>> THEN [rows |-> q, rowcount |-> 0]
  ELSE InsertOnConflictDoNothing(q, urls, t, 0)

\* Mutant: a row in 'scraping' passes the WHERE clause as well.
EligibleReclaimsScraping(r) ==
  /\ r.status \in {"pending", "error", "scraping"}
  /\ r.attempts < MAX_SCRAPE_ATTEMPTS

\* Mutant: attempts <= :max_attempts.
EligibleOffByOne(r) ==
  \/ r.status = "pending"
  \/ (r.status = "error" /\ r.attempts <= MAX_SCRAPE_ATTEMPTS)

\* WHERE status = 'pending' OR (status = 'error' AND attempts < :max_attempts)
Eligible(r) ==
  \/ r.status = "pending"
  \/ (r.status = "error" /\ r.attempts < MAX_SCRAPE_ATTEMPTS)

\* Row locks held by claims that have not committed yet.
LockedBy(i) == {w \in Workers : i \in picked[w]}

\* Mutant: the SELECT takes no row lock, every row of the snapshot is picked.
CanLockNoRowLock(w, i) == TRUE

\* FOR UPDATE SKIP LOCKED on one row of the snapshot: a row locked by another
\* transaction is skipped; an unlocked row is locked when its newest committed
\* version still passes the WHERE clause.
CanLock(w, i) == LockedBy(i) \subseteq {w} /\ Eligible(queue[i])

\* Mutant: the UPDATE leaves the status alone.
ClaimRowKeepStatus(r, t) ==
  [r EXCEPT !.attempts = r.attempts + 1, !.last_attempt_at = t]

\* Mutant: the UPDATE does not stamp last_attempt_at.
ClaimRowNoStamp(r, t) ==
  [r EXCEPT !.status = "scraping", !.attempts = r.attempts + 1]

\* SET status='scraping', attempts = attempts + 1, last_attempt_at = NOW()
ClaimRow(r, t) ==
  [r EXCEPT !.status = "scraping", !.attempts = r.attempts + 1,
            !.last_attempt_at = t]

\* Mutant: mark_done also clears the attempts counter.
mark_doneClearsAttempts(q, id) ==
  [q EXCEPT ![id].status = "done", ![id].attempts = 0]

\* UPDATE ... SET status='done' WHERE id=:id
mark_done(q, id) == [q EXCEPT ![id].status = "done"]

\* Mutant: a failed row is put back to 'pending'.
mark_failedRequeues(q, id, err) ==
  [q EXCEPT ![id].status = "pending", ![id].last_error = err]

\* Mutant: the failure counts as an attempt of its own.
mark_failedBumpsAttempts(q, id, err) ==
  [q EXCEPT ![id].status = "error", ![id].last_error = err,
            ![id].attempts = @ + 1]

\* UPDATE ... SET status='error', last_error=:err WHERE id=:id
mark_failed(q, id, err) ==
  [q EXCEPT ![id].status = "error", ![id].last_error = err]

\* All url lists of length <= MaxEnqLen (repeats allowed).
UrlLists == UNION {[1..n -> Urls] : n \in 0..MaxEnqLen}

\* ------------------------------------------------------------------- Init
NoCur == [id |-> NULL, addr |-> NULL, prop |-> NULL]

InitWorkers ==
  /\ pc = [w \in Workers |-> "idle"]
  /\ cand = [w \in Workers |-> {}]
  /\ picked = [w \in Workers |-> {}]
  /\ batch = [w \in Workers |-> {}]
  /\ cur = [w \in Workers |-> NoCur]

InitEnqIdle ==
  /\ enq_in = <<>>
  /\ enq_before = <<>>
  /\ enq_ret = -1

InitFnIdle ==
  /\ fn_in = <<>>
  /\ fn_out = <<>>

InitDiscIdle ==
  /\ dpc = "off"
  /\ page = 1
  /\ attempt = 1
  /\ consecutive_failed_pages = 0
  /\ listing_urls = {}
  /\ inserted = -1
  /\ catalog = <<>>
  /\ requests = <<>>
  /\ enq_calls = <<>>

InitFactsIdle ==
  /\ tbl_assessments = <<>>
  /\ tbl_sales = <<>>
  /\ tbl_characteristics = <<>>

InitProdIdle ==
  /\ ppc = [p \in Producers |-> "off"]
  /\ p_urls = [p \in Producers |-> <<>>]
  /\ p_pos = [p \in Producers |-> 1]
  /\ p_ins = [p \in Producers |-> <<>>]
  /\ p_wait = [p \in Producers |-> NULL]
  /\ p_ret = [p \in Producers |-> -1]

Init ==
  /\ queue = <<>>
  /\ now = 1
  /\ properties = <<>>
  /\ listings = <<>>
  /\ InitWorkers
  /\ claims = <<>>
  /\ fails = <<>>
  /\ fetches = <<>>
  /\ InitEnqIdle
  /\ InitFnIdle
  /\ InitDiscIdle
  /\ InitFactsIdle
  /\ InitProdIdle

\* --------------------------------------------------------------- discovery
\* A discovery run ends by handing its url list to enqueue_urls.
EnqueueStmt(urls) ==
  LET res == enqueue_urls(queue, urls, now)
      k == Len(res.rows) - Len(queue)
  IN /\ queue' = res.rows
     /\ now' = IF k > 0 THEN now + 1 ELSE now
     /\ claims' = claims \o [i \in 1..k |-> 0]
     /\ fails' = fails \o [i \in 1..k |-> 0]
     /\ fetches' = fetches \o [i \in 1..k |-> 0]

Enqueue(urls) ==
  /\ EnqueueStmt(urls)
  /\ UNCHANGED <<dbVars, workerVars, scnVars>>

\* ------------------------------------------------------ dequeue_next_batch
\* The statement starts: its snapshot fixes the rows that pass the WHERE clause.
DequeueBegin(w) ==
  /\ pc[w] = "idle"
  /\ pc' = [pc EXCEPT ![w] = "claiming"]
  /\ cand' = [cand EXCEPT ![w] = {i \in Ids(queue) : Eligible(queue[i])}]
  /\ picked' = [picked EXCEPT ![w] = {}]
  /\ UNCHANGED <<queueVars, dbVars, batch, cur, histVars, scnVars>>

\* Mutant: the scan takes the rows of the snapshot in any order.
NextInAnyOrder(w, i) == TRUE

\* ORDER BY discovered_at: the next row of the snapshot is one with the least
\* discovered_at (ties in any order).
NextInOrder(w, i) ==
  \A j \in cand[w] : queue[i].discovered_at <= queue[j].discovered_at

\* The scan reaches its next row and locks it or skips it; LIMIT stops the
\* scan at batch_size rows.
DequeueLockRow(w) ==
  /\ pc[w] = "claiming"
  /\ Cardinality(picked[w]) < BatchSize
  /\ \E i \in cand[w] :
       /\ NextInOrder(w, i)
       /\ cand' = [cand EXCEPT ![w] = @ \ {i}]
       /\ picked' = [picked EXCEPT ![w] = IF CanLock(w, i) THEN @ \cup {i} ELSE @]
  /\ UNCHANGED <<queueVars, dbVars, pc, batch, cur, histVars, scnVars>>

\* UPDATE ... WHERE id IN (SELECT id FROM picked) RETURNING id, url; COMMIT.
\* main(): an empty batch puts the worker to sleep, otherwise the batch loop starts.
DequeueCommit(w) ==
  /\ pc[w] = "claiming"
  /\ (Cardinality(picked[w]) >= BatchSize \/ cand[w] = {})
  /\ LET rows == picked[w]
     IN /\ queue' = [i \in Ids(queue) |->
                       IF i \in rows THEN ClaimRow(queue[i], now) ELSE queue[i]]
        /\ claims' = [i \in Ids(queue) |->
                       IF i \in rows THEN claims[i] + 1 ELSE claims[i]]
        /\ batch' = [batch EXCEPT ![w] = rows]
        /\ pc' = [pc EXCEPT ![w] = IF rows = {} THEN "sleeping" ELSE "fetch"]
  /\ cand' = [cand EXCEPT ![w] = {}]
  /\ picked' = [picked EXCEPT ![w] = {}]
  /\ UNCHANGED <<now, dbVars, cur, fails, fetches, scnVars>>

\* Mutant: a worker that found the queue empty ends its loop.
WakeNever(w) == FALSE

\* asyncio.sleep(EMPTY_QUEUE_SLEEP_SECONDS); continue
Wake(w) ==
  /\ pc[w] = "sleeping"
  /\ pc' = [pc EXCEPT ![w] = "idle"]
  /\ UNCHANGED <<queueVars, dbVars, cand, picked, batch, cur, histVars, scnVars>>

\* ------------------------------------------------------------- properties
\* Property(..., lat=lat, lng=lng, canonical_address=canonical): the columns
\* the model keeps.
Property(c, lat, lng) == [canonical_address |-> c, lat |-> lat, lng |-> lng]

\* select(Property).where(Property.canonical_address == canonical)
SelectProperty(props, c) ==
  IF \E p \in DOMAIN props : props[p].canonical_address = c
  THEN CHOOSE p \in DOMAIN props : props[p].canonical_address = c
  ELSE NULL

\* UNIQUE (canonical_address): the INSERT of a second row with the key fails.
PropertyConflict(props, c) ==
  \E p \in DOMAIN props : props[p].canonical_address = c

\* Mutant: the new row is flushed for its id but never committed.
InsertPropertyNoCommit(props, prop) ==
  [rows |-> props, id |-> Len(props) + 1]

\* session.add(prop); commit(); refresh(prop): the row is committed and its
\* serial id read back.
InsertProperty(props, prop) ==
  [rows |-> Append(props, prop), id |-> Len(props) + 1]

\* ---------------------------------------------------------------- listings
\* The columns of rew_listings the model keeps: the key, the link to the
\* Property and one optional scalar (the parser sets "beds" only when the page
\* shows it).
ListingColumns == {"rew_url", "property_id", "beds"}

\* RewListing(**data): a column the field map does not name is NULL.
RewListing(data) ==
  [k \in ListingColumns |-> IF k \in DOMAIN data THEN data[k] ELSE NULL]

\* for k, v in data.items(): setattr(existing, k, v)
SetAttrs(row, data) ==
  [k \in ListingColumns |-> IF k \in DOMAIN data THEN data[k] ELSE row[k]]

\* upsert_listing: nothing without a rew_url; the row with the same rew_url
\* gets the field map's values set on it, otherwise a row is added; commit.
upsert_listing(ls, data) ==
  IF "rew_url" \notin DOMAIN data \/ data["rew_url"] = NULL THEN ls
  ELSE IF \E l \in DOMAIN ls : ls[l].rew_url = data["rew_url"]
       THEN [l \in DOMAIN ls |->
               IF ls[l].rew_url = data["rew_url"]
               THEN SetAttrs(ls[l], data) ELSE ls[l]]
       ELSE Append(ls, RewListing(data))

\* ------------------------------------------------- main(): the batch loop
\* After mark_done / mark_failed: the next row of the batch, or a new claim.
NextItem(w, i) ==
  /\ batch' = [batch EXCEPT ![w] = @ \ {i}]
  /\ pc' = [pc EXCEPT ![w] = IF batch[w] \ {i} = {} THEN "idle" ELSE "fetch"]
  /\ cur' = [cur EXCEPT ![w] = NoCur]

Bump(f, i) == [f EXCEPT ![i] = @ + 1]

\* crawler.arun reports failure: RuntimeError, caught by main -> mark_failed.
FetchFailed(w) ==
  /\ pc[w] = "fetch"
  /\ \E i \in batch[w] :
       /\ queue' = mark_failed(queue, i, "Crawl failed")
       /\ fails' = Bump(fails, i)
       /\ fetches' = Bump(fetches, i)
       /\ NextItem(w, i)
  /\ UNCHANGED <<now, dbVars, cand, picked, claims, scnVars>>

\* The crawl succeeds without html: scrape_listing_detail returns, main calls
\* mark_done.
FetchNoHtml(w) ==
  /\ pc[w] = "fetch"
  /\ \E i \in batch[w] :
       /\ queue' = mark_done(queue, i)
       /\ fetches' = Bump(fetches, i)
       /\ NextItem(w, i)
  /\ UNCHANGED <<now, dbVars, cand, picked, claims, fails, scnVars>>

\* Mutant: the Property is created before the field map is validated.
FetchInvalidAfterResolve(w) ==
  /\ pc[w] = "fetch"
  /\ \E i \in batch[w], a \in Addrs :
       /\ queue' = mark_failed(queue, i, "Missing or invalid required fields")
       /\ properties' = IF PropertyConflict(properties, a) THEN properties
                        ELSE InsertProperty(properties, Property(a, NULL, NULL)).rows
       /\ fails' = Bump(fails, i)
       /\ fetches' = Bump(fetches, i)
       /\ NextItem(w, i)
  /\ UNCHANGED <<now, listings, cand, picked, claims, scnVars>>

\* validate_listing_data raises ValueError, caught by main -> mark_failed.
FetchInvalid(w) ==
  /\ pc[w] = "fetch"
  /\ \E i \in batch[w] :
       /\ queue' = mark_failed(queue, i, "Missing or invalid required fields")
       /\ fails' = Bump(fails, i)
       /\ fetches' = Bump(fetches, i)
       /\ NextItem(w, i)
  /\ UNCHANGED <<now, dbVars, cand, picked, claims, scnVars>>

\* The page parses and validates; get_or_create_property runs its SELECT: a
\* found Property is returned at once, otherwise the INSERT is still to come.
FetchOk(w) ==
  /\ pc[w] = "fetch"
  /\ \E i \in batch[w], a \in Addrs :
       LET p == SelectProperty(properties, a)
       IN /\ cur' = [cur EXCEPT ![w] = [id |-> i, addr |-> a, prop |-> p]]
          /\ pc' = [pc EXCEPT ![w] = IF p = NULL THEN "resolve" ELSE "upsert"]
          /\ fetches' = Bump(fetches, i)
  /\ UNCHANGED <<queueVars, dbVars, cand, picked, batch, claims, fails, scnVars>>

\* get_or_create_property: session.add(prop); commit(); refresh(prop).
CreateProperty(w) ==
  /\ pc[w] = "resolve"
  /\ ~PropertyConflict(properties, cur[w].addr)
  /\ LET res == InsertProperty(properties, Property(cur[w].addr, NULL, NULL))
     IN /\ properties' = res.rows
        /\ cur' = [cur EXCEPT ![w].prop = res.id]
  /\ pc' = [pc EXCEPT ![w] = "upsert"]
  /\ UNCHANGED <<queueVars, listings, cand, picked, batch, histVars, scnVars>>

\* The INSERT hits UNIQUE(canonical_address): commit() raises IntegrityError and
\* leaves the session's transaction rolled back; main's handler calls
\* mark_failed on that session, whose execute raises again, outside any
\* handler: main() ends with the rest of the batch still in 'scraping'.
CreatePropertyConflict(w) ==
  /\ pc[w] = "resolve"
  /\ PropertyConflict(properties, cur[w].addr)
  /\ pc' = [pc EXCEPT ![w] = "crashed"]
  /\ batch' = [batch EXCEPT ![w] = {}]
  /\ cur' = [cur EXCEPT ![w] = NoCur]
  /\ UNCHANGED <<queueVars, dbVars, cand, picked, histVars, scnVars>>

\* upsert_listing(session, data) with data["property_id"] = prop.id, then
\* mark_done.
UpsertListing(w) ==
  /\ pc[w] = "upsert"
  /\ LET i == cur[w].id
         data == [rew_url |-> queue[i].url, property_id |-> cur[w].prop]
     IN /\ listings' = upsert_listing(listings, data)
        /\ queue' = mark_done(queue, i)
        /\ NextItem(w, i)
  /\ UNCHANGED <<now, properties, cand, picked, histVars, scnVars>>

Next ==
  \/ \E urls \in UrlLists : Enqueue(urls)
  \/ \E w \in Workers : DequeueBegin(w)
  \/ \E w \in Workers : DequeueLockRow(w)
  \/ \E w \in Workers : DequeueCommit(w)
  \/ \E w \in Workers : Wake(w)
  \/ \E w \in Workers : FetchFailed(w)
  \/ \E w \in Workers : FetchNoHtml(w)
  \/ \E w \in Workers : FetchInvalid(w)
  \/ \E w \in Workers : FetchOk(w)
  \/ \E w \in Workers : CreateProperty(w)
  \/ \E w \in Workers : CreatePropertyConflict(w)
  \/ \E w \in Workers : UpsertListing(w)

Spec == Init /\ [][Next]_vars

\* The queue, the tables and the workers as Init leaves them; the scenarios
\* that exercise one function start from here.
InitSystemIdle ==
  /\ queue = <<>>
  /\ now = 1
  /\ properties = <<>>
  /\ listings = <<>>
  /\ InitWorkers
  /\ claims = <<>>
  /\ fails = <<>>
  /\ fetches = <<>>
  /\ InitEnqIdle
  /\ InitDiscIdle
  /\ InitFactsIdle
  /\ InitProdIdle

\* ------------------------------------------- scenario: K callers claim once
\* A queue of M pending rows put there by one discovery batch; every worker
\* calls dequeue_next_batch once and the scenario stops at its return.
InitClaim ==
  /\ \E m \in 0..MaxPending :
       /\ queue = enqueue_urls(<<>>, [i \in 1..m |-> i], 1).rows
       /\ claims = [i \in 1..m |-> 0]
       /\ fails = [i \in 1..m |-> 0]
       /\ fetches = [i \in 1..m |-> 0]
  /\ now = 2
  /\ properties = <<>>
  /\ listings = <<>>
  /\ InitWorkers
  /\ InitEnqIdle
  /\ InitFnIdle
  /\ InitDiscIdle
  /\ InitFactsIdle
  /\ InitProdIdle

NextClaim ==
  \/ \E w \in Workers : DequeueBegin(w)
  \/ \E w \in Workers : DequeueLockRow(w)
  \/ \E w \in Workers : DequeueCommit(w)

SpecClaim == InitClaim /\ [][NextClaim]_vars

\* ------------------------------------------- scenario: one enqueue_urls call
\* The table holds the rows of an earlier batch; enqueue_urls is called with a
\* url list and its return value is kept.
PreQueues == {enqueue_urls(<<>>, l, 1).rows : l \in UrlLists}

InitEnqueue ==
  /\ queue \in PreQueues
  /\ now = 2
  /\ claims = [i \in Ids(queue) |-> 0]
  /\ fails = [i \in Ids(queue) |-> 0]
  /\ fetches = [i \in Ids(queue) |-> 0]
  /\ properties = <<>>
  /\ listings = <<>>
  /\ InitWorkers
  /\ enq_in \in UrlLists
  /\ enq_before = queue
  /\ enq_ret = -1
  /\ InitFnIdle
  /\ InitDiscIdle
  /\ InitFactsIdle
  /\ InitProdIdle

EnqueueCall ==
  /\ enq_ret = -1
  /\ EnqueueStmt(enq_in)
  /\ enq_ret' = enqueue_urls(queue, enq_in, now).rowcount
  /\ UNCHANGED <<dbVars, workerVars, enq_in, enq_before, fnVars, discVars,
                 factVars, prodVars>>

NextEnqueue == EnqueueCall

SpecEnqueue == InitEnqueue /\ [][NextEnqueue]_vars

\* --------------------------------------- scenario: two upsert_listing calls
\* The field maps a caller can pass: any subset of the columns, each named
\* column with one of a few values (beds may be named with the value None).
FieldValues(k) ==
  IF k = "rew_url" THEN Urls
  ELSE IF k = "property_id" THEN 1..NumProps
  ELSE 0..MaxBeds

FieldMaps ==
  UNION {{d \in [D -> Urls \cup (1..NumProps) \cup 0..MaxBeds] :
            \A k \in D : d[k] \in FieldValues(k)} : D \in SUBSET ListingColumns}

InitUpsert ==
  /\ InitSystemIdle
  /\ fn_in \in [1..NumUpserts -> FieldMaps]
  /\ fn_out = 0

\* The next upsert_listing(session, data) call of the sequence.
UpsertCall ==
  /\ fn_out < Len(fn_in)
  /\ listings' = upsert_listing(listings, fn_in[fn_out + 1])
  /\ fn_out' = fn_out + 1
  /\ UNCHANGED <<queueVars, properties, workerVars, histVars, enqVars, fn_in, discVars,
                 factVars, prodVars>>

NextUpsert == UpsertCall

SpecUpsert == InitUpsert /\ [][NextUpsert]_vars

\* ------------------------------ scenario: two get_or_create_property calls
\* Strings are sequences of one-character strings.
Strs(A, n) == UNION {[1..k -> A] : k \in 0..n}

StreetChars == {"a", "A", ".", ",", " "}
PostalChars == {"v", "V", " "}

\* str.lower() on one character.
LowerChar(ch) == IF ch = "A" THEN "a" ELSE IF ch = "V" THEN "v" ELSE ch

lower(s) == [i \in DOMAIN s |-> LowerChar(s[i])]

\* s.replace(old, new) for one-character old and new.
replace(s, old, new) == [i \in DOMAIN s |-> IF s[i] = old THEN new ELSE s[i]]

\* s.replace(old, "") for a one-character old.
remove(s, old) == SelectSeq(s, LAMBDA ch : ch # old)

RECURSIVE lstrip(_)
lstrip(s) == IF s # <<>> /\ Head(s) = " " THEN lstrip(Tail(s)) ELSE s

RECURSIVE rstrip(_)
rstrip(s) ==
  IF s # <<>> /\ s[Len(s)] = " " THEN rstrip(SubSeq(s, 1, Len(s) - 1)) ELSE s

strip(s) == rstrip(lstrip(s))

\* norm() of normalize_address; None and "" are both the empty sequence, the
\* caller drops both.
norm(s) ==
  IF s = <<>> THEN <<>>
  ELSE strip(replace(replace(lower(s), ",", " "), ".", " "))

\* sep.join(parts)
RECURSIVE join(_, _)
join(parts, sep) ==
  IF parts = <<>> THEN <<>>
  ELSE IF Len(parts) = 1 THEN parts[1]
  ELSE parts[1] \o <<sep>> \o join(Tail(parts), sep)

normalize_address(street_address, city, province, postal_code) ==
  LET street_n == norm(street_address)
      city_n   == norm(city)
      prov_n   == norm(province)
      postal_n == IF postal_code # <<>> THEN norm(remove(postal_code, " "))
                  ELSE <<>>
      parts    == SelectSeq(<<street_n, city_n, prov_n, postal_n>>,
                            LAMBDA p : p # <<>>)
  IN join(parts, "|")

\* Mutant: the coordinates of a found Property are refreshed from the call.
get_or_create_propertyRefreshGeo(props, a) ==
  LET canonical == normalize_address(a.street, a.city, a.province, a.postal_code)
      p == SelectProperty(props, canonical)
  IN IF p # NULL
     THEN [rows |-> [props EXCEPT ![p].lat = a.lat, ![p].lng = a.lng], id |-> p]
     ELSE InsertProperty(props, Property(canonical, a.lat, a.lng))

\* get_or_create_property: the Property with the canonical key if there is
\* one, otherwise a new row, committed and read back.  Returns the rows and
\* the id of the Property.
get_or_create_property(props, a) ==
  LET canonical == normalize_address(a.street, a.city, a.province, a.postal_code)
  IN IF SelectProperty(props, canonical) # NULL
     THEN [rows |-> props, id |-> SelectProperty(props, canonical)]
     ELSE InsertProperty(props, Property(canonical, a.lat, a.lng))

\* The addresses the callers pass: the street and the postal code vary; lat
\* and lng are left at their default, None.
Addresses ==
  [street : Strs(StreetChars, MaxStreetLen), city : {<<"a">>},
   province : {<<"A">>}, postal_code : Strs(PostalChars, MaxPostalLen),
   lat : {NULL}, lng : {NULL}]

\* What is left of a component when letter case and periods / commas are
\* disregarded, and of a postal code when its whitespace is disregarded too.
Fold(s) == SelectSeq(lower(s), LAMBDA ch : ch \notin {".", ","})
FoldPostal(s) == remove(Fold(s), " ")

DifferOnlyByNormalization(a, b) ==
  /\ Fold(a.street) = Fold(b.street)
  /\ Fold(a.city) = Fold(b.city)
  /\ Fold(a.province) = Fold(b.province)
  /\ FoldPostal(a.postal_code) = FoldPostal(b.postal_code)

InitResolve ==
  /\ InitSystemIdle
  /\ fn_in \in {p \in Addresses \X Addresses :
                  DifferOnlyByNormalization(p[1], p[2])}
  /\ fn_out = <<>>

\* The next get_or_create_property call; fn_out collects the returned ids.
ResolveCall ==
  /\ Len(fn_out) < Len(fn_in)
  /\ LET res == get_or_create_property(properties, fn_in[Len(fn_out) + 1])
     IN /\ properties' = res.rows
        /\ fn_out' = Append(fn_out, res.id)
  /\ UNCHANGED <<queueVars, listings, workerVars, histVars, enqVars, fn_in, discVars,
                 factVars, prodVars>>

NextResolve == ResolveCall

SpecResolve == InitResolve /\ [][NextResolve]_vars

\* --------------------------------------- resolution with coordinates
NumCoords == 2 \* distinct latitudes / longitudes a call can supply
MaxCalls == 3  \* get_or_create_property calls of the coordinates scenario

\* lat / lng: Optional[float], None or one of a few values.
Coords == {NULL} \cup (1..NumCoords)

\* The calls of the scenario: two spellings of one street and a second
\* street, each with any coordinates.
GeoCalls ==
  [street : {<<"a">>, <<"A">>, <<"a", "a">>}, city : {<<"a">>},
   province : {<<"A">>}, postal_code : {<<>>}, lat : Coords, lng : Coords]

\* An empty properties table and the calls to come, in order.
InitGeo ==
  /\ InitSystemIdle
  /\ fn_in \in [1..MaxCalls -> GeoCalls]
  /\ fn_out = <<>>

SpecGeo == InitGeo /\ [][NextResolve]_vars

\* ------------------------------------------------------ webapp: the merges
PREFERRED_ASSESSMENT_SOURCES == <<"bc_assessment", "rew_graphql">>
PREFERRED_SALE_SOURCES == <<"land_title", "mls", "rew_graphql">>

\* Python's None where NULL (0) could be taken for a number, and for lists.
None == <<>>

\* Mutant: every source ranks the same.
_pick_primary_sourceNoRank(source, preferred) == 0

\* preferred.index(source), or len(preferred) when the source is not listed.
_pick_primary_source(source, preferred) ==
  IF \E i \in DOMAIN preferred : preferred[i] = source
  THEN (CHOOSE i \in DOMAIN preferred :
          /\ preferred[i] = source
          /\ \A j \in DOMAIN preferred : preferred[j] = source => i <= j) - 1
  ELSE Len(preferred)

\* Mutant: the rows are left in their input order.
sortedKeepOrder(rows, keys) == rows

\* sorted(rows, key=...): keys[i] is the key of rows[i]; the sort is stable.
sorted(rows, keys) ==
  LET rank(i) == 1 + Cardinality({j \in DOMAIN rows :
                        keys[j] < keys[i] \/ (keys[j] = keys[i] /\ j < i)})
  IN [n \in DOMAIN rows |-> rows[CHOOSE i \in DOMAIN rows : rank(i) = n]]

\* rows.sort(key=..., reverse=True): descending, equal keys keep their order.
sort_reverse(rows, keys) == sorted(rows, [i \in DOMAIN keys |-> 0 - keys[i]])

\* Mutant: a key is listed every time it comes.
dict_keysNoDedup(ks) == ks

\* The keys of a defaultdict(list) filled from ks, in insertion order.
RECURSIVE dict_keys(_)
dict_keys(ks) ==
  IF ks = <<>> THEN <<>>
  ELSE <<Head(ks)>> \o dict_keys(SelectSeq(Tail(ks), LAMBDA k : k # Head(ks)))

\* (delta / previous) * 100.0, kept as the exact quotient delta * 100 / previous.
change_pct(delta, previous) == <<delta * 100, previous>>

merge_assessments(assessments) ==
  LET years == dict_keys([i \in DOMAIN assessments |->
                            assessments[i].assessment_year])
      merged(year) ==
        LET rows == SelectSeq(assessments, LAMBDA a : a.assessment_year = year)
            rows_sorted == sorted(rows, [i \in DOMAIN rows |->
                             _pick_primary_source(rows[i].source,
                                                  PREFERRED_ASSESSMENT_SOURCES)])
            primary == rows_sorted[1]
        IN [assessment_year    |-> year,
            total_assessed_cad |-> primary.total_assessed_cad,
            land_value         |-> primary.land_value,
            building_value     |-> primary.building_value,
            primary_source     |-> primary.source,
            all_sources        |-> [i \in DOMAIN rows |-> rows[i].source],
            change_pct         |-> None]
      merged_rows == sort_reverse([n \in DOMAIN years |-> merged(years[n])],
                                  years)
  IN [n \in DOMAIN merged_rows |->
        IF n > 1 /\ merged_rows[n - 1].total_assessed_cad # 0
        THEN [merged_rows[n] EXCEPT !.change_pct =
                change_pct(merged_rows[n].total_assessed_cad
                             - merged_rows[n - 1].total_assessed_cad,
                           merged_rows[n - 1].total_assessed_cad)]
        ELSE merged_rows[n]]

\* ------------------------------------- scenario: one merge_assessments call
Years == (2024 - NumYears)..2023
AssessmentSources ==
  {"bc_assessment", "rew_graphql", "county_roll", "land_registry"}
Totals == {0, 480000, 500000, 520000}
LandValues == {NULL, 300000}

\* The rows of one property: (assessment_year, source) is unique.
Assessment ==
  {[assessment_year |-> y, source |-> s, total_assessed_cad |-> t,
    land_value |-> l,
    building_value |-> IF l = NULL \/ t < l THEN NULL ELSE t - l] :
     y \in Years, s \in AssessmentSources, t \in Totals, l \in LandValues}

AssessmentLists ==
  {a \in UNION {[1..n -> Assessment] : n \in 0..MaxFacts} :
     \A i, j \in DOMAIN a :
       (a[i].assessment_year = a[j].assessment_year
          /\ a[i].source = a[j].source) => i = j}

InitMergeAssessments ==
  /\ InitSystemIdle
  /\ fn_in \in AssessmentLists
  /\ fn_out = <<>>

MergeAssessmentsCall ==
  /\ fn_out = <<>>
  /\ fn_out' = <<merge_assessments(fn_in)>>
  /\ UNCHANGED <<queueVars, dbVars, workerVars, histVars, enqVars, fn_in, discVars,
                 factVars, prodVars>>

NextMergeAssessments == MergeAssessmentsCall

SpecMergeAssessments == InitMergeAssessments /\ [][NextMergeAssessments]_vars

\* price / sqft, kept as the exact quotient.
price_per_sqft(price, sqft) == <<price, sqft>>

\* merge_sales; of the columns a merged record copies from its primary row
\* the model keeps sqft (beds and baths are copied the same way).
merge_sales(sales) ==
  IF sales = <<>> THEN <<>>
  ELSE
  LET clusters == dict_keys([i \in DOMAIN sales |->
                    <<sales[i].sale_date, sales[i].sale_price_cad>>])
      merged(key) ==
        LET rows == SelectSeq(sales, LAMBDA s :
                      <<s.sale_date, s.sale_price_cad>> = key)
            rows_sorted == sorted(rows, [i \in DOMAIN rows |->
                             _pick_primary_source(rows[i].source,
                                                  PREFERRED_SALE_SOURCES)])
            primary == rows_sorted[1]
        IN [sale_date      |-> key[1],
            sale_price_cad |-> key[2],
            price_per_sqft |->
              IF primary.sale_price_cad # 0 /\ primary.sqft # NULL
                 /\ primary.sqft > 0
              THEN price_per_sqft(primary.sale_price_cad, primary.sqft)
              ELSE None,
            sqft           |-> primary.sqft,
            primary_source |-> primary.source,
            all_sources    |-> [i \in DOMAIN rows |-> rows[i].source]]
  IN sort_reverse([n \in DOMAIN clusters |-> merged(clusters[n])],
                  [n \in DOMAIN clusters |-> clusters[n][1]])

\* ------------------------------------------- scenario: one merge_sales call
\* Dates are the numbers yyyymmdd, which order as the dates do.
SaleDates == {20210501, 20220601}
SalePrices == {0, 900000, 950000}
SaleSources == {"land_title", "mls", "rew_graphql", "redfin"}
SqftValues == {NULL, 1500}

\* The rows of one property: (sale_date, sale_price_cad, source) is unique.
Sale ==
  [sale_date : SaleDates, sale_price_cad : SalePrices, source : SaleSources,
   sqft : SqftValues]

SaleLists ==
  {a \in UNION {[1..n -> Sale] : n \in 0..MaxFacts} :
     \A i, j \in DOMAIN a :
       (a[i].sale_date = a[j].sale_date
          /\ a[i].sale_price_cad = a[j].sale_price_cad
          /\ a[i].source = a[j].source) => i = j}

InitMergeSales ==
  /\ InitSystemIdle
  /\ fn_in \in SaleLists
  /\ fn_out = <<>>

MergeSalesCall ==
  /\ fn_out = <<>>
  /\ fn_out' = <<merge_sales(fn_in)>>
  /\ UNCHANGED <<queueVars, dbVars, workerVars, histVars, enqVars, fn_in, discVars,
                 factVars, prodVars>>

NextMergeSales == MergeSalesCall

SpecMergeSales == InitMergeSales /\ [][NextMergeSales]_vars

\* ------------------------------------------- scenario: one discover_all run
\* The site as the run meets it: for each page the number of attempts that
\* fail (timeout, reported failure or empty HTML) before one succeeds,
\* MAX_RETRIES_PER_PAGE meaning that none does, and the listing URLs the page
\* shows.  Past the last page of the catalog a page loads and shows nothing.
CatalogPages ==
  {p \in [fails : 0..MAX_RETRIES_PER_PAGE, urls : SUBSET Urls] :
     p.fails = MAX_RETRIES_PER_PAGE => p.urls = {}}

CatalogPage(p) ==
  IF p \in DOMAIN catalog THEN catalog[p] ELSE [fails |-> 0, urls |-> {}]

\* list(listing_urls): the elements of the set in some order.
ListsOf(S) ==
  {f \in [1..Cardinality(S) -> S] : \A i, j \in DOMAIN f : f[i] = f[j] => i = j}

InitDiscover ==
  /\ queue = <<>>
  /\ now = 1
  /\ properties = <<>>
  /\ listings = <<>>
  /\ InitWorkers
  /\ claims = <<>>
  /\ fails = <<>>
  /\ fetches = <<>>
  /\ InitEnqIdle
  /\ InitFnIdle
  /\ dpc = "fetch"
  /\ page = 1
  /\ attempt = 1
  /\ consecutive_failed_pages = 0
  /\ listing_urls = {}
  /\ inserted = -1
  /\ catalog \in [1..MaxPage -> CatalogPages]
  /\ requests = <<>>
  /\ enq_calls = <<>>
  /\ InitFactsIdle
  /\ InitProdIdle

\* Mutant: the loop breaks on the page after the threshold.
BreakerTrippedLate(n) == n > MAX_CONSECUTIVE_FAILED_PAGES

\* if consecutive_failed_pages >= MAX_CONSECUTIVE_FAILED_PAGES: break
BreakerTripped(n) == n >= MAX_CONSECUTIVE_FAILED_PAGES

\* Mutant: the loop goes round on the same page.
SamePage(p) == p

\* page += 1
NextPage(p) == p + 1

\* Mutant: the set keeps the URLs of the last page only.
updateReplaces(S, T) == T

\* listing_urls.update(page_urls)
update(S, T) == S \cup T

\* Mutant: a page that loads leaves the counter as it was.
CounterKeptOnSuccess(n) == n

\* consecutive_failed_pages = 0 after a page that loaded
CounterAfterSuccess(n) == 0

\* fetch_page_with_retries: an attempt other than the last raises; the
\* function backs off and goes round its loop.
FetchRetry ==
  /\ dpc = "fetch"
  /\ attempt <= CatalogPage(page).fails
  /\ attempt < MAX_RETRIES_PER_PAGE
  /\ requests' = Append(requests, <<page, attempt>>)
  /\ attempt' = attempt + 1
  /\ UNCHANGED <<queueVars, dbVars, workerVars, histVars, enqVars, fnVars, factVars, prodVars,
                 dpc, page, consecutive_failed_pages, listing_urls, inserted,
                 catalog, enq_calls>>

\* The last attempt raises: fetch_page_with_retries returns None, and
\* discover_all counts a failed page, then stops or skips to the next page.
PageFailed ==
  /\ dpc = "fetch"
  /\ attempt <= CatalogPage(page).fails
  /\ attempt = MAX_RETRIES_PER_PAGE
  /\ requests' = Append(requests, <<page, attempt>>)
  /\ consecutive_failed_pages' = consecutive_failed_pages + 1
  /\ attempt' = 1
  /\ IF BreakerTripped(consecutive_failed_pages')
     THEN dpc' = "enqueue" /\ page' = page
     ELSE dpc' = dpc /\ page' = NextPage(page)
  /\ UNCHANGED <<queueVars, dbVars, workerVars, histVars, enqVars, fnVars, factVars, prodVars,
                 listing_urls, inserted, catalog, enq_calls>>

\* An attempt returns HTML with no listing URL: end of pagination.
PageEmpty ==
  /\ dpc = "fetch"
  /\ attempt > CatalogPage(page).fails
  /\ CatalogPage(page).urls = {}
  /\ requests' = Append(requests, <<page, attempt>>)
  /\ consecutive_failed_pages' = CounterAfterSuccess(consecutive_failed_pages)
  /\ attempt' = 1
  /\ dpc' = "enqueue"
  /\ UNCHANGED <<queueVars, dbVars, workerVars, histVars, enqVars, fnVars, factVars, prodVars,
                 page, listing_urls, inserted, catalog, enq_calls>>

\* An attempt returns HTML with listing URLs: collect them, sleep, next page.
PageListed ==
  /\ dpc = "fetch"
  /\ attempt > CatalogPage(page).fails
  /\ CatalogPage(page).urls # {}
  /\ requests' = Append(requests, <<page, attempt>>)
  /\ consecutive_failed_pages' = CounterAfterSuccess(consecutive_failed_pages)
  /\ listing_urls' = update(listing_urls, CatalogPage(page).urls)
  /\ attempt' = 1
  /\ page' = NextPage(page)
  /\ UNCHANGED <<queueVars, dbVars, workerVars, histVars, enqVars, fnVars, factVars, prodVars,
                 dpc, inserted, catalog, enq_calls>>

\* After the loop: enqueue_urls(list(listing_urls)) when the set is not empty.
DiscoverEnqueue ==
  /\ dpc = "enqueue"
  /\ dpc' = "done"
  /\ IF listing_urls # {}
     THEN \E urls \in ListsOf(listing_urls) :
            /\ EnqueueStmt(urls)
            /\ inserted' = enqueue_urls(queue, urls, now).rowcount
            /\ enq_calls' = Append(enq_calls, urls)
     ELSE /\ inserted' = 0
          /\ UNCHANGED <<queueVars, histVars, enq_calls>>
  /\ UNCHANGED <<dbVars, workerVars, enqVars, fnVars, factVars, prodVars, page, attempt,
                 consecutive_failed_pages, listing_urls, catalog, requests>>

NextDiscover ==
  \/ FetchRetry
  \/ PageFailed
  \/ PageEmpty
  \/ PageListed
  \/ DiscoverEnqueue

SpecDiscover == InitDiscover /\ [][NextDiscover]_vars

\* discover_all is one coroutine: each await (a fetch bounded by
\* PAGE_LOAD_TIMEOUT_SECONDS, a sleep, the INSERT) returns and the next
\* statement runs.
SpecDiscoverLive ==
  InitDiscover /\ [][NextDiscover]_vars /\ WF_vars(NextDiscover)

\* ------------------------------------ scenario: one validate_listing_data call
\* Python values of a field map: None, a str (a sequence of characters) or
\* an int.
PyNone == [t |-> "none"]
PyStr(s) == [t |-> "str", v |-> s]
PyInt(n) == [t |-> "int", v |-> n]

\* data.get(k)
get(data, k) == IF k \in DOMAIN data THEN data[k] ELSE PyNone

\* (x or ""), for x None or a str.
or_empty(x) == IF x.t = "str" THEN x.v ELSE <<>>

DigitValue(ch) == IF ch = "5" THEN 5 ELSE 0

RECURSIVE digits_value(_, _)
digits_value(s, acc) ==
  IF s = <<>> THEN acc
  ELSE digits_value(Tail(s), acc * 10 + DigitValue(Head(s)))

\* int(s) for a str: surrounding whitespace is ignored, one sign may precede
\* the digits, anything else raises ValueError.
int_str(s) ==
  LET t == strip(s)
      signed == t # <<>> /\ Head(t) \in {"-", "+"}
      digits == IF signed THEN Tail(t) ELSE t
  IN IF digits # <<>> /\ \A i \in DOMAIN digits : digits[i] \in {"0", "5"}
     THEN [raised |-> FALSE,
           v |-> IF signed /\ Head(t) = "-" THEN 0 - digits_value(digits, 0)
                 ELSE digits_value(digits, 0)]
     ELSE [raised |-> TRUE, v |-> 0]

\* int(x)
int(x) ==
  IF x.t = "int" THEN [raised |-> FALSE, v |-> x.v]
  ELSE IF x.t = "str" THEN int_str(x.v)
  ELSE [raised |-> TRUE, v |-> 0]

\* Mutant: a price of 0 passes.
PositivePriceOrZero(price_val) == price_val >= 0

\* if price_val <= 0: raise ValueError
PositivePrice(price_val) == price_val > 0

\* validate_listing_data: the names it found missing (it raises ValueError
\* when there is one) and the field map as the call leaves it.
validate_listing_data(data) ==
  LET blank(k) == strip(or_empty(get(data, k))) = <<>>
      price == get(data, "price_cad")
      price_ok == /\ price.t # "none"
                  /\ ~ int(price).raised
                  /\ PositivePrice(int(price).v)
      missing == (IF blank("rew_url") THEN <<"rew_url">> ELSE <<>>)
                 \o (IF blank("street_address") THEN <<"street_address">> ELSE <<>>)
                 \o (IF blank("city") THEN <<"city">> ELSE <<>>)
                 \o (IF price_ok THEN <<>> ELSE <<"price_cad">>)
  IN [raised  |-> missing # <<>>,
      missing |-> missing,
      data    |-> IF price_ok
                  THEN [k \in DOMAIN data |->
                          IF k = "price_cad" THEN PyInt(int(price).v)
                          ELSE data[k]]
                  ELSE data]

TextValues == {PyNone} \cup {PyStr(s) : s \in Strs({"x", " "}, MaxTextLen)}
PriceValues ==
  {PyNone} \cup {PyInt(n) : n \in -1..5}
    \cup {PyStr(s) : s \in Strs({"0", "5", "-", "a", " "}, MaxPriceLen)}

RequiredFields == {"rew_url", "street_address", "city", "price_cad"}

\* The field maps the parser can hand over: any of the four keys may be
\* absent.
Absent == [t |-> "absent"]

ScrapedMaps ==
  {[k \in {k \in RequiredFields : r[k] # Absent} |-> r[k]] :
     r \in [rew_url : TextValues \cup {Absent},
            street_address : TextValues \cup {Absent},
            city : TextValues \cup {Absent},
            price_cad : PriceValues \cup {Absent}]}

InitValidate ==
  /\ InitSystemIdle
  /\ fn_in \in ScrapedMaps
  /\ fn_out = <<>>

ValidateCall ==
  /\ fn_out = <<>>
  /\ fn_out' = <<validate_listing_data(fn_in)>>
  /\ UNCHANGED <<queueVars, dbVars, workerVars, histVars, enqVars, fn_in, discVars,
                 factVars, prodVars>>

NextValidate == ValidateCall

SpecValidate == InitValidate /\ [][NextValidate]_vars

\* ------------------------------ scenario: the facts of an item, ingested again
\* Mutant: a plain INSERT, which raises IntegrityError on a duplicate key.
insert_values(table, tkeys, rows, rkeys) ==
  IF \/ \E i \in DOMAIN rkeys : rkeys[i] \in tkeys
     \/ \E i, j \in DOMAIN rkeys : i # j /\ rkeys[i] = rkeys[j]
  THEN [rows |-> table, raised |-> TRUE]
  ELSE [rows |-> table \o rows, raised |-> FALSE]

\* pg_insert(T).values(rows).on_conflict_do_nothing(index_elements=key):
\* rkeys[i] is the key of rows[i] and tkeys the keys in the table; a row whose
\* key is there already is dropped, nothing is raised.
RECURSIVE on_conflict_do_nothing(_, _, _, _)
on_conflict_do_nothing(table, tkeys, rows, rkeys) ==
  IF rows = <<>> THEN [rows |-> table, raised |-> FALSE]
  ELSE IF Head(rkeys) \in tkeys
       THEN on_conflict_do_nothing(table, tkeys, Tail(rows), Tail(rkeys))
       ELSE on_conflict_do_nothing(Append(table, Head(rows)),
                                   tkeys \cup {Head(rkeys)},
                                   Tail(rows), Tail(rkeys))

AssessmentKey(r) == <<r.property_id, r.assessment_year, r.source>>
SaleKey(r) == <<r.property_id, r.sale_date, r.sale_price_cad, r.source>>

AssessmentKeys(table) == {AssessmentKey(table[i]) : i \in DOMAIN table}
SaleKeys(table) == {SaleKey(table[i]) : i \in DOMAIN table}

\* The row the scraper builds from one parsed assessment / sale.
AssessmentRow(prop_id, a) ==
  [property_id |-> prop_id, assessment_year |-> a.assessment_year,
   total_assessed_cad |-> a.total_assessed_cad, land_value |-> a.land_value,
   building_value |-> a.building_value, source |-> "rew_graphql",
   raw_blob |-> a.raw]

SaleRow(prop_id, s) ==
  [property_id |-> prop_id, sale_date |-> s.sale_date,
   sale_price_cad |-> s.sale_price_cad, sqft |-> NULL,
   source |-> "rew_graphql", raw_blob |-> s.raw]

\* What parse_rew_assessment_history / parse_rew_sales_history hand over.
ParsedAssessments ==
  [assessment_year : Years, total_assessed_cad : {500000, 520000},
   land_value : {NULL}, building_value : {NULL}, raw : {1}]

ParsedSales ==
  [sale_date : SaleDates, sale_price_cad : SalePrices, raw : 1..2]

AuxPayloads ==
  [assessments : UNION {[1..n -> ParsedAssessments] : n \in 0..MaxAssessments},
   sales : UNION {[1..n -> ParsedSales] : n \in 0..MaxSales}]

InitFacts ==
  /\ queue = <<>>
  /\ now = 1
  /\ properties = <<Property(1, NULL, NULL)>>
  /\ listings = <<>>
  /\ InitWorkers
  /\ claims = <<>>
  /\ fails = <<>>
  /\ fetches = <<>>
  /\ InitEnqIdle
  /\ InitDiscIdle
  /\ tbl_assessments = <<>>
  /\ tbl_sales = <<>>
  /\ tbl_characteristics = <<>>
  /\ InitProdIdle
  /\ fn_in \in [1..NumIngests -> AuxPayloads]
  /\ fn_out = <<>>

\* scrape_listing_detail, "if gql_data:" for the item's Property: both
\* inserts and the commit; an exception leaves the transaction uncommitted
\* and the item fails.
IngestFacts ==
  /\ Len(fn_out) < Len(fn_in)
  /\ LET aux == fn_in[Len(fn_out) + 1]
         prop_id == 1
         arows == [i \in DOMAIN aux.assessments |->
                     AssessmentRow(prop_id, aux.assessments[i])]
         srows == [i \in DOMAIN aux.sales |-> SaleRow(prop_id, aux.sales[i])]
         ares == IF arows = <<>> THEN [rows |-> tbl_assessments, raised |-> FALSE]
                 ELSE on_conflict_do_nothing(
                        tbl_assessments, AssessmentKeys(tbl_assessments),
                        arows, [i \in DOMAIN arows |-> AssessmentKey(arows[i])])
         sres == IF srows = <<>> THEN [rows |-> tbl_sales, raised |-> FALSE]
                 ELSE on_conflict_do_nothing(
                        tbl_sales, SaleKeys(tbl_sales),
                        srows, [i \in DOMAIN srows |-> SaleKey(srows[i])])
     IN IF ares.raised \/ sres.raised
        THEN /\ fn_out' = Append(fn_out, "failed")
             /\ UNCHANGED factVars
        ELSE /\ fn_out' = Append(fn_out, "ok")
             /\ tbl_assessments' = ares.rows
             /\ tbl_sales' = sres.rows
             /\ UNCHANGED tbl_characteristics
  /\ UNCHANGED <<queueVars, dbVars, workerVars, histVars, enqVars, fn_in,
                 discVars, prodVars>>

NextFacts == IngestFacts

SpecFacts == InitFacts /\ [][NextFacts]_vars

\* ------------------------------ scenario: producers enqueue at the same time
\* Each producer runs enqueue_urls in a transaction of its own.  The INSERT
\* goes through its VALUES tuples in order; a tuple whose url is committed
\* (or was put in by the same statement) is dropped; a tuple whose url was
\* put in by a transaction still in progress makes the statement wait for
\* that transaction to end and then look again.
DistinctLists == UNION {ListsOf(S) : S \in SUBSET Urls}

InitProducers ==
  /\ queue \in PreQueues
  /\ now = 2
  /\ claims = [i \in Ids(queue) |-> 0]
  /\ fails = [i \in Ids(queue) |-> 0]
  /\ fetches = [i \in Ids(queue) |-> 0]
  /\ properties = <<>>
  /\ listings = <<>>
  /\ InitWorkers
  /\ InitEnqIdle
  /\ InitFnIdle
  /\ InitDiscIdle
  /\ InitFactsIdle
  /\ ppc = [p \in Producers |-> "insert"]
  /\ p_urls \in [Producers -> DistinctLists]
  /\ p_pos = [p \in Producers |-> 1]
  /\ p_ins = [p \in Producers |-> <<>>]
  /\ p_wait = [p \in Producers |-> NULL]
  /\ p_ret = [p \in Producers |-> -1]

\* The producer whose uncommitted tuple holds url u, NULL when there is none.
Holder(p, u) ==
  IF \E q \in Producers \ {p} : u \in Range(p_ins[q])
  THEN CHOOSE q \in Producers \ {p} : u \in Range(p_ins[q])
  ELSE NULL

\* The INSERT handles its next tuple.
ProducerInsert(p) ==
  /\ ppc[p] = "insert"
  /\ p_pos[p] <= Len(p_urls[p])
  /\ LET u == p_urls[p][p_pos[p]]
     IN IF u \in UrlsOf(queue) \/ u \in Range(p_ins[p])
        THEN /\ p_pos' = [p_pos EXCEPT ![p] = @ + 1]
             /\ UNCHANGED <<ppc, p_ins, p_wait>>
        ELSE IF Holder(p, u) # NULL
        THEN /\ ppc' = [ppc EXCEPT ![p] = "wait"]
             /\ p_wait' = [p_wait EXCEPT ![p] = Holder(p, u)]
             /\ UNCHANGED <<p_pos, p_ins>>
        ELSE /\ p_ins' = [p_ins EXCEPT ![p] = Append(@, u)]
             /\ p_pos' = [p_pos EXCEPT ![p] = @ + 1]
             /\ UNCHANGED <<ppc, p_wait>>
  /\ UNCHANGED <<queueVars, dbVars, workerVars, histVars, enqVars, fnVars,
                 discVars, factVars, p_urls, p_ret>>

\* The transaction waited for has ended: the tuple is looked at again.
ProducerResume(p) ==
  /\ ppc[p] = "wait"
  /\ ppc[p_wait[p]] \in {"done", "failed"}
  /\ ppc' = [ppc EXCEPT ![p] = "insert"]
  /\ p_wait' = [p_wait EXCEPT ![p] = NULL]
  /\ UNCHANGED <<queueVars, dbVars, workerVars, histVars, enqVars, fnVars,
                 discVars, factVars, p_urls, p_pos, p_ins, p_ret>>

\* The producer reached from p by following n waits, NULL when the chain ends.
RECURSIVE WaitsFor(_, _)
WaitsFor(p, n) ==
  IF n = 0 THEN p
  ELSE LET q == WaitsFor(p, n - 1)
       IN IF q # NULL /\ ppc[q] = "wait" THEN p_wait[q] ELSE NULL

\* The waits form a cycle through p: the deadlock detector aborts p's
\* transaction, session.execute raises and enqueue_urls fails.
ProducerDeadlock(p) ==
  /\ ppc[p] = "wait"
  /\ \E n \in 1..NumProducers : WaitsFor(p, n) = p
  /\ ppc' = [ppc EXCEPT ![p] = "failed"]
  /\ p_ins' = [p_ins EXCEPT ![p] = <<>>]
  /\ p_wait' = [p_wait EXCEPT ![p] = NULL]
  /\ UNCHANGED <<queueVars, dbVars, workerVars, histVars, enqVars, fnVars,
                 discVars, factVars, p_urls, p_pos, p_ret>>

\* The statement is through (or the list was empty): commit, return rowcount.
ProducerCommit(p) ==
  /\ ppc[p] = "insert"
  /\ p_pos[p] > Len(p_urls[p])
  /\ LET k == Len(p_ins[p])
     IN /\ queue' = queue \o [i \in 1..k |-> RewListingUrl(p_ins[p][i], now)]
        /\ now' = IF k > 0 THEN now + 1 ELSE now
        /\ claims' = claims \o [i \in 1..k |-> 0]
        /\ fails' = fails \o [i \in 1..k |-> 0]
        /\ fetches' = fetches \o [i \in 1..k |-> 0]
        /\ p_ret' = [p_ret EXCEPT ![p] = k]
  /\ ppc' = [ppc EXCEPT ![p] = "done"]
  /\ p_ins' = [p_ins EXCEPT ![p] = <<>>]
  /\ UNCHANGED <<dbVars, workerVars, enqVars, fnVars, discVars, factVars,
                 p_urls, p_pos, p_wait>>

NextProducers ==
  \/ \E p \in Producers : ProducerInsert(p)
  \/ \E p \in Producers : ProducerResume(p)
  \/ \E p \in Producers : ProducerDeadlock(p)
  \/ \E p \in Producers : ProducerCommit(p)
  \/ \E w \in Workers : DequeueBegin(w)
  \/ \E w \in Workers : DequeueLockRow(w)
  \/ \E w \in Workers : DequeueCommit(w)

SpecProducers == InitProducers /\ [][NextProducers]_vars

\* ------------------------------------------ the workers under fair scheduling
\* Everything worker w can do next; the event loop of a running process keeps
\* taking its step.
WorkerStep(w) ==
  \/ DequeueBegin(w)
  \/ DequeueLockRow(w)
  \/ DequeueCommit(w)
  \/ Wake(w)
  \/ FetchFailed(w)
  \/ FetchNoHtml(w)
  \/ FetchInvalid(w)
  \/ FetchOk(w)
  \/ CreateProperty(w)
  \/ CreatePropertyConflict(w)
  \/ UpsertListing(w)

SpecLive == Init /\ [][Next]_vars /\ \A w \in Workers : WF_vars(WorkerStep(w))

\* ------------------------------- scenario: one caller claims from a used queue
\* The queue as earlier runs can leave it: rows in any status, attempts as the
\* status allows, discovered_at growing with the id (rows of one INSERT share
\* it).
UsedRows ==
  {[status |-> "pending", attempts |-> 0],
   [status |-> "scraping", attempts |-> 1],
   [status |-> "done", attempts |-> 1],
   [status |-> "error", attempts |-> 1],
   [status |-> "error", attempts |-> MAX_SCRAPE_ATTEMPTS]}

UsedQueues ==
  UNION {{[i \in 1..m |->
             [url |-> i, status |-> s[i].status, attempts |-> s[i].attempts,
              discovered_at |-> t[i],
              last_attempt_at |-> IF s[i].attempts = 0 THEN NULL ELSE MaxPending,
              last_error |-> IF s[i].status = "error" THEN "Crawl failed" ELSE ""]] :
            s \in [1..m -> UsedRows],
            t \in {f \in [1..m -> 1..MaxPending] :
                     \A i, j \in 1..m : i <= j => f[i] <= f[j]}} :
         m \in 0..MaxPending}

InitFifo ==
  /\ queue \in UsedQueues
  /\ now = MaxPending + 1
  /\ claims = [i \in Ids(queue) |-> queue[i].attempts]
  /\ fails = [i \in Ids(queue) |->
                IF queue[i].status = "error" THEN queue[i].attempts ELSE 0]
  /\ fetches = [i \in Ids(queue) |->
                  IF queue[i].status = "scraping" THEN 0 ELSE queue[i].attempts]
  /\ properties = <<>>
  /\ listings = <<>>
  /\ InitWorkers
  /\ InitEnqIdle
  /\ InitFnIdle
  /\ InitDiscIdle
  /\ InitFactsIdle
  /\ InitProdIdle

NextFifo ==
  \/ DequeueBegin(1)
  \/ DequeueLockRow(1)
  \/ DequeueCommit(1)

SpecFifo == InitFifo /\ [][NextFifo]_vars

\* --------------------------- scenario: the workers drain a queue of pending rows
\* No discovery runs: the rows of InitClaim are all there is to scrape.
NextBatch ==
  \/ \E w \in Workers : DequeueBegin(w)
  \/ \E w \in Workers : DequeueLockRow(w)
  \/ \E w \in Workers : DequeueCommit(w)
  \/ \E w \in Workers : Wake(w)
  \/ \E w \in Workers : FetchFailed(w)
  \/ \E w \in Workers : FetchNoHtml(w)
  \/ \E w \in Workers : FetchInvalid(w)
  \/ \E w \in Workers : FetchOk(w)
  \/ \E w \in Workers : CreateProperty(w)
  \/ \E w \in Workers : CreatePropertyConflict(w)
  \/ \E w \in Workers : UpsertListing(w)

SpecBatch == InitClaim /\ [][NextBatch]_vars

\* ------------------------------- scenario: one fetch_page_with_retries call
\* What an attempt can do: asyncio.wait_for times out, the crawler reports
\* failure, the result carries no HTML, or it carries HTML.
AttemptOutcomes == {"timeout", "failure", "empty", "html"}

\* random.uniform(0, 1), at the two ends of its range
Jitters == {0, 1}

\* Mutant: the same delay before every retry.
backoffNoDoubling(k, jitter) ==
  Min(BACKOFF_BASE_SECONDS + jitter, BACKOFF_MAX_SECONDS)

\* backoff = BACKOFF_BASE_SECONDS * (2 ** (attempt - 1)) + random.uniform(0, 1)
\* backoff = min(backoff, BACKOFF_MAX_SECONDS)
backoff(k, jitter) ==
  Min(BACKOFF_BASE_SECONDS * 2^(k - 1) + jitter, BACKOFF_MAX_SECONDS)

\* The call's trace: crawler.arun calls, sleeps and the return (v = 1: the
\* HTML, v = 0: None).
Tried(k)       == [ev |-> "try", k |-> k, j |-> 0, v |-> 0]
Slept(k, j, d) == [ev |-> "sleep", k |-> k, j |-> j, v |-> d]
Returned(k, v) == [ev |-> "return", k |-> k, j |-> 0, v |-> v]

HasReturned == fn_out # <<>> /\ fn_out[Len(fn_out)].ev = "return"

\* fn_in[k] is what attempt k will do.
InitFetchPage ==
  /\ InitSystemIdle
  /\ fn_in \in [1..MAX_RETRIES_PER_PAGE -> AttemptOutcomes]
  /\ fn_out = <<>>

\* The attempt returns HTML: return html.
AttemptSucceeds ==
  /\ ~HasReturned
  /\ fn_in[attempt] = "html"
  /\ fn_out' = fn_out \o <<Tried(attempt), Returned(attempt, 1)>>
  /\ UNCHANGED <<queueVars, dbVars, workerVars, histVars, enqVars, fn_in,
                 discVars, factVars, prodVars>>

\* The attempt raises and is not the last: sleep(backoff), next attempt.
AttemptFailsRetry ==
  /\ ~HasReturned
  /\ fn_in[attempt] # "html"
  /\ attempt # MAX_RETRIES_PER_PAGE
  /\ \E jitter \in Jitters :
       fn_out' = fn_out \o <<Tried(attempt),
                             Slept(attempt, jitter, backoff(attempt, jitter))>>
  /\ attempt' = attempt + 1
  /\ UNCHANGED <<queueVars, dbVars, workerVars, histVars, enqVars, fn_in,
                 dpc, page, consecutive_failed_pages, listing_urls, inserted,
                 catalog, requests, enq_calls, factVars, prodVars>>

\* The last attempt raises: return None.
AttemptFailsLast ==
  /\ ~HasReturned
  /\ fn_in[attempt] # "html"
  /\ attempt = MAX_RETRIES_PER_PAGE
  /\ fn_out' = fn_out \o <<Tried(attempt), Returned(attempt, 0)>>
  /\ UNCHANGED <<queueVars, dbVars, workerVars, histVars, enqVars, fn_in,
                 discVars, factVars, prodVars>>

NextFetchPage ==
  \/ AttemptSucceeds
  \/ AttemptFailsRetry
  \/ AttemptFailsLast

SpecFetchPage == InitFetchPage /\ [][NextFetchPage]_vars

\* ------------------- scenario: a discovery run over a queue that is in use
\* The queue holds nothing or the row of url 1 in any state; a page loads at
\* once or fails every attempt.
InitRediscover ==
  /\ queue \in {q \in UsedQueues : Len(q) <= 1}
  /\ now = MaxPending + 1
  /\ claims = [i \in Ids(queue) |-> queue[i].attempts]
  /\ fails = [i \in Ids(queue) |->
                IF queue[i].status = "error" THEN queue[i].attempts ELSE 0]
  /\ fetches = [i \in Ids(queue) |->
                  IF queue[i].status = "scraping" THEN 0 ELSE queue[i].attempts]
  /\ properties = <<>>
  /\ listings = <<>>
  /\ InitWorkers
  /\ InitEnqIdle
  /\ InitFnIdle
  /\ dpc = "fetch"
  /\ page = 1
  /\ attempt = 1
  /\ consecutive_failed_pages = 0
  /\ listing_urls = {}
  /\ inserted = -1
  /\ catalog \in [1..MaxPage ->
                    {p \in CatalogPages : p.fails \in {0, MAX_RETRIES_PER_PAGE}}]
  /\ requests = <<>>
  /\ enq_calls = <<>>
  /\ InitFactsIdle
  /\ InitProdIdle

SpecRediscover == InitRediscover /\ [][NextDiscover]_vars

\* ------------------------------------ scenario: one group_*_by_source call
\* Mutant: the partitions keep the input order.
group_assessments_unsorted(assessments) ==
  [s \in {assessments[i].source : i \in DOMAIN assessments} |->
     SelectSeq(assessments, LAMBDA a : a.source = s)]

\* by_source[a.source].append(a); rows.sort(key=year, reverse=True); the dict
\* is a function from the sources met to their lists.
group_assessments_by_source(assessments) ==
  [s \in {assessments[i].source : i \in DOMAIN assessments} |->
     LET rows == SelectSeq(assessments, LAMBDA a : a.source = s)
     IN sort_reverse(rows, [i \in DOMAIN rows |-> rows[i].assessment_year])]

\* by_source[s.source].append(s); rows.sort(key=sale_date, reverse=True)
group_sales_by_source(sales) ==
  [s \in {sales[i].source : i \in DOMAIN sales} |->
     LET rows == SelectSeq(sales, LAMBDA r : r.source = s)
     IN sort_reverse(rows, [i \in DOMAIN rows |-> rows[i].sale_date])]

InitGroup ==
  /\ InitSystemIdle
  /\ fn_in \in [kind : {"assessments"}, rows : AssessmentLists]
               \cup [kind : {"sales"}, rows : SaleLists]
  /\ fn_out = <<>>

GroupAssessmentsCall ==
  /\ fn_out = <<>>
  /\ fn_in.kind = "assessments"
  /\ fn_out' = <<group_assessments_by_source(fn_in.rows)>>
  /\ UNCHANGED <<queueVars, dbVars, workerVars, histVars, enqVars, fn_in, discVars,
                 factVars, prodVars>>

GroupSalesCall ==
  /\ fn_out = <<>>
  /\ fn_in.kind = "sales"
  /\ fn_out' = <<group_sales_by_source(fn_in.rows)>>
  /\ UNCHANGED <<queueVars, dbVars, workerVars, histVars, enqVars, fn_in, discVars,
                 factVars, prodVars>>

NextGroup ==
  \/ GroupAssessmentsCall
  \/ GroupSalesCall

SpecGroup == InitGroup /\ [][NextGroup]_vars

\* ------------------- scenario: one worker ingests one item, with retries
\* What the page of the item holds, the same at every fetch that loads it:
\* fn_in.beds and the parsed history fn_in.aux.  fn_out lists how each
\* attempt that got past validation ended: "ok" or "raised".
MaxDay == 2

PropertyCharacteristics(prop_id, day, beds) ==
  [property_id |-> prop_id, as_of_date |-> day, source |-> "rew",
   beds |-> beds]

CharacteristicsKey(r) == <<r.property_id, r.as_of_date, r.source>>

\* Mutant: the table has no unique constraint, the row is always added.
add_snapshotAlways(table, row) == Append(table, row)

\* session.add(pc); try: commit() except: rollback().  The commit fails on
\* UNIQUE(property_id, as_of_date, source) and the rollback drops the row.
add_snapshot(table, row) ==
  IF \E i \in DOMAIN table : CharacteristicsKey(table[i]) = CharacteristicsKey(row)
  THEN table
  ELSE Append(table, row)

InitIngest ==
  /\ queue = enqueue_urls(<<>>, <<1>>, 1).rows
  /\ now = 1
  /\ properties = <<>>
  /\ listings = <<>>
  /\ InitWorkers
  /\ claims = <<0>>
  /\ fails = <<0>>
  /\ fetches = <<0>>
  /\ InitEnqIdle
  /\ InitDiscIdle
  /\ InitFactsIdle
  /\ InitProdIdle
  /\ fn_in \in [beds : 0..MaxBeds, aux : AuxPayloads]
  /\ fn_out = <<>>

\* datetime.utcnow().date() moves on.
DayPasses ==
  /\ now < MaxDay
  /\ now' = now + 1
  /\ UNCHANGED <<queue, dbVars, workerVars, histVars, scnVars>>

\* upsert_listing(session, data) with the parsed fields and the property_id.
IngestListing(w) ==
  /\ pc[w] = "upsert"
  /\ listings' = upsert_listing(listings,
                   [rew_url |-> queue[cur[w].id].url,
                    property_id |-> cur[w].prop, beds |-> fn_in.beds])
  /\ pc' = [pc EXCEPT ![w] = "snapshot"]
  /\ UNCHANGED <<queueVars, properties, cand, picked, batch, cur, histVars,
                 scnVars>>

\* The structural snapshot of the day.
IngestSnapshot(w) ==
  /\ pc[w] = "snapshot"
  /\ tbl_characteristics' =
       add_snapshot(tbl_characteristics,
                    PropertyCharacteristics(cur[w].prop, now, fn_in.beds))
  /\ pc' = [pc EXCEPT ![w] = "facts"]
  /\ UNCHANGED <<queueVars, dbVars, cand, picked, batch, cur, histVars,
                 enqVars, fnVars, discVars, tbl_assessments, tbl_sales,
                 prodVars>>

\* parse_rew_assessment_history / parse_rew_sales_history raise on the
\* payload: nothing of the history is inserted, main calls mark_failed.
IngestHistoryRaises(w) ==
  /\ pc[w] = "facts"
  /\ queue' = mark_failed(queue, cur[w].id, "History parse failed")
  /\ fails' = Bump(fails, cur[w].id)
  /\ fn_out' = Append(fn_out, "raised")
  /\ NextItem(w, cur[w].id)
  /\ UNCHANGED <<now, dbVars, cand, picked, claims, fetches, enqVars, fn_in,
                 discVars, factVars, prodVars>>

\* Both history inserts, the commit, and main's mark_done.
IngestHistory(w) ==
  /\ pc[w] = "facts"
  /\ LET arows == [i \in DOMAIN fn_in.aux.assessments |->
                     AssessmentRow(cur[w].prop, fn_in.aux.assessments[i])]
         srows == [i \in DOMAIN fn_in.aux.sales |->
                     SaleRow(cur[w].prop, fn_in.aux.sales[i])]
     IN /\ tbl_assessments' =
             IF arows = <<>> THEN tbl_assessments
             ELSE on_conflict_do_nothing(
                    tbl_assessments, AssessmentKeys(tbl_assessments), arows,
                    [i \in DOMAIN arows |-> AssessmentKey(arows[i])]).rows
        /\ tbl_sales' =
             IF srows = <<>> THEN tbl_sales
             ELSE on_conflict_do_nothing(
                    tbl_sales, SaleKeys(tbl_sales), srows,
                    [i \in DOMAIN srows |-> SaleKey(srows[i])]).rows
  /\ queue' = mark_done(queue, cur[w].id)
  /\ fn_out' = Append(fn_out, "ok")
  /\ NextItem(w, cur[w].id)
  /\ UNCHANGED <<now, dbVars, cand, picked, histVars, enqVars, fn_in, discVars,
                 tbl_characteristics, prodVars>>

NextIngest ==
  \/ DayPasses
  \/ DequeueBegin(1)
  \/ DequeueLockRow(1)
  \/ DequeueCommit(1)
  \/ FetchFailed(1)
  \/ FetchNoHtml(1)
  \/ FetchInvalid(1)
  \/ FetchOk(1)
  \/ CreateProperty(1)
  \/ IngestListing(1)
  \/ IngestSnapshot(1)
  \/ IngestHistoryRaises(1)
  \/ IngestHistory(1)

SpecIngest == InitIngest /\ [][NextIngest]_vars

\* ================================================================== claims

\* C1: in every interleaving of claiming workers, no queue row is held by two
\* claimants: the rows returned to (or locked for) different workers and not
\* yet marked done / error are pairwise disjoint.
C1_ClaimsPairwiseDisjoint ==
  \A w1 \in Workers, w2 \in Workers :
    w1 # w2 => (batch[w1] \cup picked[w1]) \cap (batch[w2] \cup picked[w2]) = {}

\* Two claims overlap, each holding a row lock, while the queue was contended.
C1_Witness ==
  \E w1 \in Workers, w2 \in Workers :
    /\ w1 # w2
    /\ pc[w1] = "claiming" /\ pc[w2] = "claiming"
    /\ picked[w1] # {} /\ picked[w2] # {}

\* C2: K callers each claim once against M pending rows: when all have
\* returned, the rows claimed total min(M, n*K) (= M when M < n*K), they are
\* exactly the rows now in 'scraping', and a caller that returned fewer than n
\* rows left no row unclaimed.
AllReturned == \A w \in Workers : pc[w] \in {"fetch", "sleeping"}
TotalClaimed == SumOver(Workers, [w \in Workers |-> Cardinality(batch[w])])

C2_ClaimedTotalIsMin ==
  AllReturned =>
    /\ TotalClaimed = Min(Len(queue), BatchSize * NumWorkers)
    /\ Cardinality({i \in Ids(queue) : queue[i].status = "scraping"}) = TotalClaimed
    /\ \A w \in Workers :
         Cardinality(batch[w]) < BatchSize =>
           \A i \in Ids(queue) : queue[i].status = "scraping"

\* M = 3 < n*K and the rows were shared out between two callers.
C2_Witness ==
  /\ AllReturned
  /\ Len(queue) = 3
  /\ Len(queue) < BatchSize * NumWorkers
  /\ \E w1 \in Workers, w2 \in Workers :
       w1 # w2 /\ batch[w1] # {} /\ batch[w2] # {}

\* C3: a row that has received mark_failed MAX_SCRAPE_ATTEMPTS times is never
\* locked or returned by a dequeue_next_batch again and never changes again.
C3_NoClaimAfterMaxFails ==
  [][\A i \in Ids(queue) :
       fails[i] >= MAX_SCRAPE_ATTEMPTS =>
         /\ queue'[i] = queue[i]
         /\ \A w \in Workers :
              i \notin (picked'[w] \cup batch'[w])]_vars

\* A claim runs while a row has its five failures.
C3_Witness ==
  \E i \in Ids(queue) :
    /\ fails[i] = MAX_SCRAPE_ATTEMPTS
    /\ \E w \in Workers : pc[w] = "claiming"

\* C4: a row's attempts never decreases, never exceeds MAX_SCRAPE_ATTEMPTS and
\* equals the number of claims that returned the row; the row's url is fetched
\* at most MAX_SCRAPE_ATTEMPTS times.
C4_AttemptsMonotoneCapped ==
  [][\A i \in Ids(queue) :
       /\ queue'[i].attempts >= queue[i].attempts
       /\ queue'[i].attempts <= MAX_SCRAPE_ATTEMPTS
       /\ queue'[i].attempts = claims'[i]
       /\ fetches'[i] <= MAX_SCRAPE_ATTEMPTS]_vars

\* A url has been fetched for the fifth time.
C4_Witness ==
  \E i \in Ids(queue) :
    queue[i].attempts = MAX_SCRAPE_ATTEMPTS /\ fetches[i] = MAX_SCRAPE_ATTEMPTS

\* C5: enqueue_urls adds exactly one row per distinct url of its input that was
\* not in the table, keeps the rows that were there, and returns the number of
\* rows added, also when the input repeats a url.
C5_EnqueueInsertsDistinctNew ==
  enq_ret # -1 =>
    LET new == Range(enq_in) \ UrlsOf(enq_before)
    IN /\ enq_ret = Cardinality(new)
       /\ Len(queue) = Len(enq_before) + Cardinality(new)
       /\ SubSeq(queue, 1, Len(enq_before)) = enq_before
       /\ UrlsOf(queue) = UrlsOf(enq_before) \cup Range(enq_in)
       /\ \A i \in Ids(queue), j \in Ids(queue) :
            queue[i].url = queue[j].url => i = j

\* enqueue([u1, u2, u1]) on an empty queue: 2 rows, returns 2.
C5_Witness ==
  /\ enq_in = <<1, 2, 1>>
  /\ enq_before = <<>>
  /\ enq_ret = 2
  /\ Len(queue) = 2

\* C6: the rows dequeue_next_batch returns are at most batch_size, each was
\* eligible (pending, or error with attempts < max) right before and is
\* afterwards in 'scraping' with attempts one higher and last_attempt_at
\* stamped; no row in scraping, done or exhausted error is returned.
C6_DequeueReturnsEligibleRows ==
  [][\A w \in Workers :
       (pc[w] = "claiming" /\ pc'[w] # "claiming") =>
         /\ Cardinality(batch'[w]) <= BatchSize
         /\ \A i \in batch'[w] :
              /\ \/ queue[i].status = "pending"
                 \/ (queue[i].status = "error"
                       /\ queue[i].attempts < MAX_SCRAPE_ATTEMPTS)
              /\ queue'[i].status = "scraping"
              /\ queue'[i].attempts = queue[i].attempts + 1
              /\ queue'[i].last_attempt_at = now
              /\ queue'[i].last_attempt_at # NULL]_vars

\* A claim has returned a retried error row.
C6_Witness ==
  \E w \in Workers :
    /\ pc[w] = "fetch"
    /\ \E i \in batch[w] : queue[i].attempts = 2 /\ queue[i].last_error # ""

\* C7: an item is marked done only after its ingestion has fully succeeded:
\* every row in 'done' has its record in rew_listings, tied to a Property.
C7_DoneOnlyAfterIngestion ==
  \A i \in Ids(queue) :
    queue[i].status = "done" =>
      \E l \in DOMAIN listings :
        /\ listings[l].rew_url = queue[i].url
        /\ listings[l].property_id \in DOMAIN properties

\* C8: no failure of one item ends a worker's loop.
C8_WorkerLoopNeverEnds == \A w \in Workers : pc[w] # "crashed"

\* C9: every record with a property_id references a committed Property row.
C9_RecordReferencesProperty ==
  \A l \in DOMAIN listings :
    listings[l].property_id # NULL =>
      listings[l].property_id \in DOMAIN properties

\* Two records reference the Property that the first ingestion created.
C9_Witness ==
  /\ Len(listings) = 2
  /\ \A l \in DOMAIN listings : listings[l].property_id = 1
  /\ Len(properties) = 1

\* C10: Property creation and record upsert commit together: no committed state
\* holds a Property that no record references.
C10_PropertyCommitsWithRecord ==
  \A p \in DOMAIN properties :
    \E l \in DOMAIN listings : listings[l].property_id = p

\* C11: an upsert for a rew_url that is already stored leaves exactly one row
\* for that URL, and the row's scalar fields are those of the new field map:
\* a field the earlier upsert set and the new map does not name does not keep
\* its old value.
C11_UpsertReplacesAllFields ==
  (/\ fn_out = 2
   /\ "rew_url" \in DOMAIN fn_in[1]
   /\ "rew_url" \in DOMAIN fn_in[2]
   /\ fn_in[1]["rew_url"] = fn_in[2]["rew_url"])
    => /\ Cardinality({l \in DOMAIN listings :
                         listings[l].rew_url = fn_in[2]["rew_url"]}) = 1
       /\ \A l \in DOMAIN listings :
            \A k \in ListingColumns :
              listings[l][k] = IF k \in DOMAIN fn_in[2] THEN fn_in[2][k] ELSE NULL


\* C12: for two addresses that differ only by letter case, by periods /
\* commas or by whitespace inside the postal code, normalize_address yields
\* the same canonical key, and the second get_or_create_property returns the
\* Property id the first one created without adding a row.
C12_ResolveIdempotentUnderNormalization ==
  Len(fn_out) = 2 =>
    /\ normalize_address(fn_in[1].street, fn_in[1].city,
                         fn_in[1].province, fn_in[1].postal_code)
         = normalize_address(fn_in[2].street, fn_in[2].city,
                             fn_in[2].province, fn_in[2].postal_code)
    /\ fn_out[2] = fn_out[1]
    /\ Len(properties) = 1


\* C13: in the result of merge_assessments every record's change_pct is
\* computed against the chronologically previous (next-older year) record,
\* (total - older total) / older total * 100, and the chronologically first
\* record has none: for 2022 = 500000 and 2023 = 520000 the 2023 record has
\* 4.0 and the 2022 record has null.
C13_ChangeVsChronologicallyPrevious ==
  fn_out # <<>> =>
    LET out == fn_out[1]
    IN \A n \in DOMAIN out :
         LET older == {m \in DOMAIN out :
                         out[m].assessment_year < out[n].assessment_year}
         IN IF older = {}
            THEN out[n].change_pct = None
            ELSE LET p == CHOOSE m \in older : \A k \in older :
                            out[k].assessment_year <= out[m].assessment_year
                 IN out[p].total_assessed_cad # 0 =>
                      /\ out[n].change_pct # None
                      /\ out[n].change_pct[1] * out[p].total_assessed_cad
                           = (out[n].total_assessed_cad
                                - out[p].total_assessed_cad) * 100
                             * out[n].change_pct[2]


\* C14: for every year merge_assessments takes as primary the fact whose
\* source comes first in [bc_assessment, rew_graphql], a source outside the
\* list ranking after both and equal ranks going to the earlier fact of the
\* input; the merged record carries that fact's total, land and building
\* values and its source.  For the facts (2022, bc_assessment, 500000),
\* (2022, rew_graphql, 480000), (2023, bc_assessment, 520000) the records are
\* 2022 -> 500000 / bc_assessment and 2023 -> 520000 / bc_assessment.
C14_AssessmentPrimaryByPreference ==
  fn_out # <<>> =>
    LET out == fn_out[1]
        Rank(s) == IF s = "bc_assessment" THEN 0
                   ELSE IF s = "rew_graphql" THEN 1 ELSE 2
        Primary(y) ==
          CHOOSE i \in DOMAIN fn_in :
            /\ fn_in[i].assessment_year = y
            /\ \A j \in DOMAIN fn_in : fn_in[j].assessment_year = y =>
                 \/ Rank(fn_in[i].source) < Rank(fn_in[j].source)
                 \/ (Rank(fn_in[i].source) = Rank(fn_in[j].source) /\ i <= j)
    IN /\ {out[n].assessment_year : n \in DOMAIN out}
            = {fn_in[i].assessment_year : i \in DOMAIN fn_in}
       /\ \A n \in DOMAIN out :
            LET p == fn_in[Primary(out[n].assessment_year)]
            IN /\ out[n].total_assessed_cad = p.total_assessed_cad
               /\ out[n].land_value = p.land_value
               /\ out[n].building_value = p.building_value
               /\ out[n].primary_source = p.source
       /\ ({<<fn_in[i].assessment_year, fn_in[i].source,
              fn_in[i].total_assessed_cad>> : i \in DOMAIN fn_in}
             = {<<2022, "bc_assessment", 500000>>,
                <<2022, "rew_graphql", 480000>>,
                <<2023, "bc_assessment", 520000>>})
            => \A n \in DOMAIN out :
                 /\ out[n].primary_source = "bc_assessment"
                 /\ out[n].total_assessed_cad =
                      IF out[n].assessment_year = 2022 THEN 500000 ELSE 520000

\* C14 witness: a year whose facts come from two unlisted sources and then
\* from rew_graphql, merged with the rew_graphql fact as primary.
C14_Witness ==
  /\ fn_out # <<>>
  /\ Len(fn_in) = 3
  /\ fn_in[1].assessment_year = 2022 /\ fn_in[1].source = "county_roll"
  /\ fn_in[2].assessment_year = 2022 /\ fn_in[2].source = "land_registry"
  /\ fn_in[3].assessment_year = 2022 /\ fn_in[3].source = "rew_graphql"
  /\ fn_in[1].total_assessed_cad # fn_in[3].total_assessed_cad
  /\ fn_out[1][1].primary_source = "rew_graphql"
  /\ fn_out[1][1].total_assessed_cad = fn_in[3].total_assessed_cad


\* C15: merge_sales returns one record per (sale_date, sale_price_cad)
\* cluster, and its primary_source is the source of the cluster that comes
\* first in [land_title, mls, rew_graphql], whatever the order of the input
\* rows: two rows sharing (2021-05-01, 900000) from mls and rew_graphql give
\* one record with primary_source = mls.
C15_SalePrimaryByPreference ==
  fn_out # <<>> =>
    LET out == fn_out[1]
        Rank(s) == IF s = "land_title" THEN 0 ELSE IF s = "mls" THEN 1
                   ELSE IF s = "rew_graphql" THEN 2 ELSE 3
        Cluster(n) == {i \in DOMAIN fn_in :
                         /\ fn_in[i].sale_date = out[n].sale_date
                         /\ fn_in[i].sale_price_cad = out[n].sale_price_cad}
    IN /\ Len(out) = Cardinality({<<fn_in[i].sale_date, fn_in[i].sale_price_cad>> :
                                    i \in DOMAIN fn_in})
       /\ \A n \in DOMAIN out :
            /\ Cluster(n) # {}
            /\ \E i \in Cluster(n) :
                 /\ out[n].primary_source = fn_in[i].source
                 /\ \A j \in Cluster(n) :
                      Rank(fn_in[i].source) <= Rank(fn_in[j].source)
       /\ \A m, n \in DOMAIN out :
            (out[m].sale_date = out[n].sale_date
               /\ out[m].sale_price_cad = out[n].sale_price_cad) => m = n

\* C15 witness: the rew_graphql row then the mls row of the sale
\* (2021-05-01, 900000), merged into one record whose primary is mls.
C15_Witness ==
  /\ fn_out # <<>>
  /\ Len(fn_in) = 2
  /\ \A i \in 1..2 : fn_in[i].sale_date = 20210501
                     /\ fn_in[i].sale_price_cad = 900000
  /\ fn_in[1].source = "rew_graphql"
  /\ fn_in[2].source = "mls"
  /\ Len(fn_out[1]) = 1
  /\ fn_out[1][1].primary_source = "mls"


\* C16: once MAX_CONSECUTIVE_FAILED_PAGES (3) pages in a row have each
\* exhausted their retries, discover_all stops and fetches no further page,
\* whatever the next page would have returned: no request is ever made for a
\* page that comes after three consecutive pages on which every attempt fails
\* (page 4 is never requested when pages 1-3 fail).
C16_BreakerStopsDiscovery ==
  /\ \A i \in DOMAIN requests :
       ~ \E p \in 1..MaxPage :
           /\ p + 2 < requests[i][1]
           /\ \A q \in p..(p + 2) :
                q \in DOMAIN catalog /\ catalog[q].fails = 3
  /\ consecutive_failed_pages >= 3 => dpc \in {"enqueue", "done"}

\* C16 witness: pages 1-3 fail every attempt, page 4 would load and show
\* listings, and the run is over with nine requests made.
C16_Witness ==
  /\ \A q \in 1..3 : catalog[q].fails = 3
  /\ catalog[4].fails = 0
  /\ catalog[4].urls # {}
  /\ dpc = "done"
  /\ Len(requests) = 9
  /\ consecutive_failed_pages = 3


\* C17: validate_listing_data raises exactly when the price is missing, 0,
\* negative or not a numeral (e.g. "abc"), or the rew_url, the street address
\* or the city is missing, empty or only whitespace; whatever the other
\* fields hold, a bad price alone makes it raise, and a map is accepted only
\* when all four requirements hold.
C17_ValidateRejectsBadMaps ==
  fn_out # <<>> =>
    LET d == fn_in
        Blank(k) ==
          \/ k \notin DOMAIN d
          \/ d[k].t = "none"
          \/ d[k].t = "str" /\ \A i \in DOMAIN d[k].v : d[k].v[i] = " "
        Numeral(s) ==
          \E a, b \in DOMAIN s :
            /\ a <= b
            /\ \A i \in DOMAIN s :
                 IF a <= i /\ i <= b THEN s[i] \in {"0", "5"} ELSE s[i] = " "
            /\ \E i \in a..b : s[i] = "5"
        BadPrice ==
          \/ "price_cad" \notin DOMAIN d
          \/ d["price_cad"].t = "none"
          \/ d["price_cad"].t = "int" /\ d["price_cad"].v <= 0
          \/ d["price_cad"].t = "str" /\ ~ Numeral(d["price_cad"].v)
    IN /\ BadPrice => fn_out[1].raised
       /\ fn_out[1].raised <=>
            (BadPrice \/ Blank("rew_url") \/ Blank("street_address")
               \/ Blank("city"))

\* C17 witness: a map with url, street and city and the price 0, rejected
\* for its price alone.
C17_Witness ==
  /\ fn_out # <<>>
  /\ \A k \in {"rew_url", "street_address", "city"} :
       k \in DOMAIN fn_in /\ fn_in[k] = PyStr(<<"x">>)
  /\ "price_cad" \in DOMAIN fn_in
  /\ fn_in["price_cad"] = PyInt(0)
  /\ fn_out[1].raised
  /\ fn_out[1].missing = <<"price_cad">>


\* C18: assessment and sale facts are only ever inserted when absent: no
\* ingestion changes or removes a stored fact row, the keys (property, year,
\* source) and (property, date, price, source) stay unique, and an ingestion
\* whose payload carries another value for a stored key does not fail.
C18_FactsInsertIfAbsent ==
  [][/\ Len(tbl_assessments') >= Len(tbl_assessments)
     /\ \A i \in DOMAIN tbl_assessments : tbl_assessments'[i] = tbl_assessments[i]
     /\ \A i, j \in DOMAIN tbl_assessments' :
          (/\ tbl_assessments'[i].property_id = tbl_assessments'[j].property_id
           /\ tbl_assessments'[i].assessment_year = tbl_assessments'[j].assessment_year
           /\ tbl_assessments'[i].source = tbl_assessments'[j].source) => i = j
     /\ Len(tbl_sales') >= Len(tbl_sales)
     /\ \A i \in DOMAIN tbl_sales : tbl_sales'[i] = tbl_sales[i]
     /\ \A i, j \in DOMAIN tbl_sales' :
          (/\ tbl_sales'[i].property_id = tbl_sales'[j].property_id
           /\ tbl_sales'[i].sale_date = tbl_sales'[j].sale_date
           /\ tbl_sales'[i].sale_price_cad = tbl_sales'[j].sale_price_cad
           /\ tbl_sales'[i].source = tbl_sales'[j].source) => i = j
     /\ \A n \in DOMAIN fn_out' : fn_out'[n] = "ok"]_vars

\* C18 witness: the item was ingested twice, the second payload giving
\* another total for the year of the first; one row for the year is stored,
\* with the first total.
C18_Witness ==
  /\ Len(fn_out) = 2
  /\ fn_out[2] = "ok"
  /\ Len(fn_in[1].assessments) = 1
  /\ Len(fn_in[2].assessments) = 1
  /\ fn_in[1].assessments[1].assessment_year = fn_in[2].assessments[1].assessment_year
  /\ fn_in[1].assessments[1].total_assessed_cad = 500000
  /\ fn_in[2].assessments[1].total_assessed_cad = 520000
  /\ Len(tbl_assessments) = 1
  /\ tbl_assessments[1].total_assessed_cad = 500000
  /\ Len(fn_in[1].sales) = 1
  /\ Len(fn_in[2].sales) = 1
  /\ fn_in[1].sales[1].sale_date = fn_in[2].sales[1].sale_date
  /\ fn_in[1].sales[1].sale_price_cad = fn_in[2].sales[1].sale_price_cad
  /\ fn_in[1].sales[1].raw # fn_in[2].sales[1].raw
  /\ tbl_sales = <<SaleRow(1, fn_in[1].sales[1])>>


\* C19: nothing reclaims a row left in 'scraping' by a worker that crashed
\* after claiming it: no step changes the row, and no claim of another
\* worker locks or returns it.
C19_NoReclaimOfScrapingRows ==
  [][\A i \in Ids(queue) :
       (/\ queue[i].status = "scraping"
        /\ \A w \in Workers : i \notin batch[w] /\ cur[w].id # i)
         => /\ queue'[i] = queue[i]
            /\ \A w \in Workers :
                 i \notin picked'[w] /\ i \notin batch'[w] /\ cur'[w].id # i]_vars

\* C19 witness: a row in 'scraping' that no worker holds, its claimant having
\* crashed, while the other worker has found nothing to claim and sleeps.
C19_Witness ==
  \E i \in Ids(queue) :
    /\ queue[i].status = "scraping"
    /\ \A w \in Workers : i \notin batch[w] /\ cur[w].id # i
    /\ \E w \in Workers : pc[w] = "crashed"
    /\ \E w \in Workers : pc[w] = "sleeping"


\* C20: the url of a queue row is unique in every reachable state, also
\* while several producers enqueue overlapping url lists at the same time as
\* each other and as claiming workers; a url of two concurrent batches ends
\* up in one row, and no enqueue fails.
C20_UrlUniqueNoEnqueueFails ==
  /\ \A i, j \in Ids(queue) : queue[i].url = queue[j].url => i = j
  /\ \A p \in Producers : ppc[p] # "failed"


\* C21: every change of a queue row's status is pending -> scraping,
\* scraping -> done, scraping -> error, or error -> scraping with attempts
\* below MAX_SCRAPE_ATTEMPTS before the claim; no row goes back to pending,
\* and the status is always pending, scraping, done or error.
C21_StatusTransitions ==
  [][\A i \in Ids(queue) :
       /\ queue'[i].status \in {"pending", "scraping", "done", "error"}
       /\ queue'[i].status # queue[i].status =>
            \/ queue[i].status = "pending" /\ queue'[i].status = "scraping"
            \/ queue[i].status = "scraping" /\ queue'[i].status = "done"
            \/ queue[i].status = "scraping" /\ queue'[i].status = "error"
            \/ /\ queue[i].status = "error"
               /\ queue'[i].status = "scraping"
               /\ queue[i].attempts < 5]_vars

\* C21 witness: a row that failed once is in 'scraping' again, and another
\* row is done.
C21_Witness ==
  \E i, j \in Ids(queue) :
    /\ queue[i].status = "scraping"
    /\ fails[i] >= 1
    /\ queue[i].attempts = 2
    /\ queue[j].status = "done"

\* C22: a claim adds exactly 1 to attempts; mark_failed changes only status
\* and last_error, mark_done only status: attempts, url, discovered_at and
\* last_attempt_at are as the claim left them, so a claim followed by
\* mark_failed adds exactly 1.
C22_AttemptsCountedAtClaim ==
  [][\A i \in Ids(queue) :
       /\ (queue'[i].status = "scraping" /\ queue[i].status # "scraping")
            => queue'[i].attempts = queue[i].attempts + 1
       /\ (queue[i].status = "scraping" /\ queue'[i].status = "error")
            => \E err \in {"Crawl failed", "Missing or invalid required fields"} :
                 queue'[i] = [queue[i] EXCEPT !.status = "error",
                                              !.last_error = err]
       /\ (queue[i].status = "scraping" /\ queue'[i].status = "done")
            => queue'[i] = [queue[i] EXCEPT !.status = "done"]
       /\ queue'[i].status = queue[i].status => queue'[i] = queue[i]]_vars

\* C22 witness: a row after one claim and one mark_failed, and a row after one
\* claim and mark_done.
C22_Witness ==
  \E i, j \in Ids(queue) :
    /\ queue[i].status = "error"
    /\ queue[i].attempts = 1
    /\ claims[i] = 1
    /\ fails[i] = 1
    /\ queue[i].last_error # ""
    /\ queue[j].status = "done"
    /\ queue[j].attempts = 1


\* C23: when no worker crashes and the workers keep running, every row of the
\* queue, whenever it was enqueued, eventually is done or is in error with
\* attempts = MAX_SCRAPE_ATTEMPTS.
C23_EveryItemReachesFinalState ==
  ([](\A w \in Workers : pc[w] # "crashed"))
    => \A u \in Urls :
         (\E i \in Ids(queue) : queue[i].url = u)
           ~> (\E i \in Ids(queue) :
                 /\ queue[i].url = u
                 /\ \/ queue[i].status = "done"
                    \/ queue[i].status = "error" /\ queue[i].attempts = 5)

\* C23 witness: a worker has slept on an empty queue and no worker has
\* crashed; a row enqueued since then is done and another has used up its
\* attempts.
C23_Witness ==
  /\ \A w \in Workers : pc[w] # "crashed"
  /\ \E w \in Workers : pc[w] = "sleeping"
  /\ \E i, j \in Ids(queue) :
       /\ queue[i].status = "done"
       /\ queue[j].status = "error"
       /\ queue[j].attempts = 5


\* C24: a dequeue_next_batch(n) that runs alone returns the n eligible rows
\* with the earliest discovered_at (all of them when there are fewer): no
\* eligible row is left while a later-discovered row is returned, and an
\* error row still open to retry goes by its original discovered_at, ahead of
\* pending rows discovered later.
C24_ClaimIsFifo ==
  [][(pc[1] = "claiming" /\ pc'[1] # "claiming") =>
       LET E == {i \in Ids(queue) :
                   \/ queue[i].status = "pending"
                   \/ queue[i].status = "error" /\ queue[i].attempts < 5}
       IN /\ batch'[1] \subseteq E
          /\ Cardinality(batch'[1]) = Min(BatchSize, Cardinality(E))
          /\ \A i \in batch'[1], j \in E \ batch'[1] :
               queue[i].discovered_at <= queue[j].discovered_at
          /\ \A i \in Ids(queue) :
               queue'[i].discovered_at = queue[i].discovered_at]_vars

\* C24 witness: the claim returned an error row on its second attempt and left
\* behind a pending row discovered later.
C24_Witness ==
  /\ pc[1] = "fetch"
  /\ \E i \in batch[1], j \in Ids(queue) \ batch[1] :
       /\ queue[i].attempts = 2
       /\ queue[i].last_error # ""
       /\ queue[j].status = "pending"
       /\ queue[i].discovered_at < queue[j].discovered_at
  /\ Cardinality(batch[1]) = BatchSize


\* C25: a worker handles the rows of its batch one at a time, and a row that
\* fails does not keep the others from being handled: the step that ends the
\* worker's batch loop leaves every row that was still in the batch done or in
\* error, none in scraping.  (Violated: the IntegrityError of one row ends
\* main() with the rest of the batch in scraping.)
C25_BatchLoopFinishesEveryItem ==
  [][\A w \in Workers :
       (pc[w] \in {"fetch", "resolve", "upsert"}
          /\ pc'[w] \notin {"fetch", "resolve", "upsert"})
         => \A i \in batch[w] : i # cur[w].id
              => queue'[i].status \in {"done", "error"}]_vars


\* C26: every page that loads puts consecutive_failed_pages back to 0, so the
\* counter is the length of the run of failed pages just before the current
\* page; discovery stops on a failure only at the third failed page in a row
\* (failed pages with a loaded page between them never stop it), and below
\* that a failed page is skipped: the loop goes on at the next page index.
C26_OnlyConsecutiveFailuresTrip ==
  LET Failed(q) == CatalogPage(q).fails = 3
      FailedRun(p) == Cardinality({q \in 1..p : \A r \in q..p : Failed(r)})
  IN /\ dpc = "fetch" => consecutive_failed_pages = FailedRun(page - 1)
     /\ dpc = "fetch" => consecutive_failed_pages < 3
     /\ dpc \in {"enqueue", "done"} =>
          \/ /\ ~Failed(page)
             /\ CatalogPage(page).urls = {}
             /\ consecutive_failed_pages = 0
          \/ /\ Failed(page)
             /\ FailedRun(page) = 3
             /\ consecutive_failed_pages = 3
     /\ dpc # "off" =>
          \A q \in 1..(page - 1) : \E i \in DOMAIN requests : requests[i][1] = q

\* C26 witness: pages 1, 2 and 4 fail every attempt, page 3 loads with
\* listings between them; all three failed pages were skipped and the run
\* ended normally on page 5.
C26_Witness ==
  /\ catalog[1].fails = 3
  /\ catalog[2].fails = 3
  /\ catalog[3].fails = 1
  /\ catalog[3].urls # {}
  /\ catalog[4].fails = 3
  /\ dpc = "done"
  /\ page = 5
  /\ consecutive_failed_pages = 0
  /\ listing_urls = catalog[3].urls


\* C27: a discover_all run calls enqueue_urls at most once, and only after
\* its page loop has ended; the one list holds, each once, every URL shown by
\* the pages of the run that loaded (no call when there is none), whether the
\* loop ended on a page without listings or was stopped by the failure
\* threshold, and after the call all of them are in the queue.
C27_OneEnqueueWithEveryUrl ==
  LET Loaded == {q \in 1..page : CatalogPage(q).fails < 3}
      Collected == UNION {CatalogPage(q).urls : q \in Loaded}
  IN /\ Len(enq_calls) <= 1
     /\ dpc \in {"fetch", "enqueue"} => enq_calls = <<>>
     /\ dpc = "done" =>
          IF Collected = {}
          THEN enq_calls = <<>> /\ queue = <<>>
          ELSE /\ Len(enq_calls) = 1
               /\ Range(enq_calls[1]) = Collected
               /\ Len(enq_calls[1]) = Cardinality(Collected)
               /\ UrlsOf(queue) = Collected
               /\ inserted = Cardinality(Collected)

\* C27 witness: page 1 loads on its second attempt and shows two URLs, pages
\* 2-4 fail every attempt: the run was stopped by the threshold and its one
\* enqueue_urls call carried both collected URLs.
C27_Witness ==
  /\ catalog[1].fails = 1
  /\ catalog[1].urls = {1, 2}
  /\ \A q \in 2..4 : catalog[q].fails = 3
  /\ dpc = "done"
  /\ page = 4
  /\ consecutive_failed_pages = 3
  /\ Len(enq_calls) = 1
  /\ Len(enq_calls[1]) = 2
  /\ UrlsOf(queue) = {1, 2}

\* C28: fetch_page_with_retries makes at most 3 attempts, numbered 1, 2, 3;
\* it returns the HTML at the first attempt that yields it and None when the
\* third attempt fails too (a timeout, a reported failure and empty content
\* are all failed attempts, and the call always returns); every sleep comes
\* straight after a failed attempt other than the last and is followed by the
\* next attempt, and the delay after attempt k is
\* min(2 * 2^(k-1) + jitter, 30), so never above BACKOFF_MAX_SECONDS.
C28_BoundedRetriesWithBackoff ==
  LET Tries == {i \in DOMAIN fn_out : fn_out[i].ev = "try"}
      Sleeps == {i \in DOMAIN fn_out : fn_out[i].ev = "sleep"}
      n == Cardinality(Tries)
      Good == {k \in 1..3 : fn_in[k] = "html"}
  IN /\ n <= 3
     /\ \A i \in Tries : fn_out[i].k = Cardinality({h \in Tries : h <= i})
     /\ \A i \in Sleeps :
          /\ i > 1
          /\ fn_out[i - 1].ev = "try"
          /\ fn_out[i - 1].k = fn_out[i].k
          /\ fn_out[i].k < 3
          /\ fn_in[fn_out[i].k] # "html"
          /\ fn_out[i].v = Min(2 * 2^(fn_out[i].k - 1) + fn_out[i].j, 30)
          /\ fn_out[i].v <= 30
          /\ i < Len(fn_out) => fn_out[i + 1].ev = "try"
     /\ HasReturned =>
          /\ Cardinality(Sleeps) = n - 1
          /\ fn_out[Len(fn_out) - 1].ev = "try"
          /\ IF Good # {}
             THEN /\ fn_out[Len(fn_out)].v = 1
                  /\ n \in Good
                  /\ \A k \in Good : n <= k
             ELSE /\ fn_out[Len(fn_out)].v = 0
                  /\ n = 3
     /\ (~HasReturned /\ fn_out # <<>>) => fn_out[Len(fn_out)].ev = "sleep"

\* C28 witness: the first attempt times out, the second has no content, the
\* third returns the HTML, after sleeps of 3 and 4 seconds.
C28_Witness ==
  /\ fn_in = <<"timeout", "empty", "html">>
  /\ HasReturned
  /\ Len(fn_out) = 6
  /\ fn_out[2].ev = "sleep" /\ fn_out[2].v = 3
  /\ fn_out[4].ev = "sleep" /\ fn_out[4].v = 4
  /\ fn_out[6].v = 1


\* C29: discover_all requests page 1 first and then goes from a page only to
\* the page after it: the attempts on one page follow each other, and no page
\* is come back to; and the run ends whenever the catalog is finite (from
\* some page on, every page fails to load or shows no listing).
C29_PagesInOrderAndRunEnds ==
  /\ [](/\ requests # <<>> => requests[1] = <<1, 1>>
        /\ \A i \in 1..(Len(requests) - 1) :
             \/ /\ requests[i + 1][1] = requests[i][1]
                /\ requests[i + 1][2] = requests[i][2] + 1
             \/ /\ requests[i + 1][1] = requests[i][1] + 1
                /\ requests[i + 1][2] = 1
        /\ \A i, j \in DOMAIN requests :
             i < j => requests[i][1] <= requests[j][1])
  /\ <>(dpc = "done")

\* C29 witness: pages 1, 3 and 4 show listings, page 2 fails every attempt
\* and is skipped; the run ended on page 5, after seven requests.
C29_Witness ==
  /\ \A q \in {1, 3, 4} : catalog[q].fails = 0 /\ catalog[q].urls # {}
  /\ catalog[2].fails = 3
  /\ dpc = "done"
  /\ page = 5
  /\ Len(requests) = 7
  /\ requests[7] = <<5, 1>>


\* C30: enqueue_urls never changes a row that is already in the queue:
\* enqueueing a URL again leaves its row's status, attempts, discovered_at,
\* last_attempt_at and last_error as they were, and no step of a discovery
\* run, whether it ends normally, fails on pages or is stopped by the failure
\* threshold, changes or removes an existing row.
C30_EnqueueLeavesExistingRows ==
  [][\A i \in Ids(queue) :
       /\ i \in Ids(queue')
       /\ queue'[i].url = queue[i].url
       /\ queue'[i].status = queue[i].status
       /\ queue'[i].attempts = queue[i].attempts
       /\ queue'[i].discovered_at = queue[i].discovered_at
       /\ queue'[i].last_attempt_at = queue[i].last_attempt_at
       /\ queue'[i].last_error = queue[i].last_error]_vars

\* C30 witness: url 1 was in the queue in error with all its attempts used;
\* the run collected urls 1 and 2 on page 1, was stopped by three failed
\* pages, and its enqueue_urls call added url 2 only, url 1's row being as
\* before.
C30_Witness ==
  /\ dpc = "done"
  /\ consecutive_failed_pages = 3
  /\ Len(enq_calls) = 1
  /\ Range(enq_calls[1]) = {1, 2}
  /\ inserted = 1
  /\ Len(queue) = 2
  /\ queue[1].url = 1
  /\ queue[1].status = "error"
  /\ queue[1].attempts = 5
  /\ queue[1].discovered_at < queue[2].discovered_at
  /\ queue[2].status = "pending"


\* C31: merge_assessments returns exactly one record for each assessment
\* year of its input and none for any other year, in strictly descending
\* order of year, and the all_sources of a year's record holds the source of
\* each input fact of that year, once each and nothing else.
C31_OneRecordPerYear ==
  fn_out # <<>> =>
    LET out == fn_out[1]
        InYears == {fn_in[i].assessment_year : i \in DOMAIN fn_in}
        Facts(y) == {i \in DOMAIN fn_in : fn_in[i].assessment_year = y}
    IN /\ Len(out) = Cardinality(InYears)
       /\ \A y \in InYears :
            Cardinality({n \in DOMAIN out : out[n].assessment_year = y}) = 1
       /\ \A n \in DOMAIN out : out[n].assessment_year \in InYears
       /\ \A n \in 1..(Len(out) - 1) :
            out[n].assessment_year > out[n + 1].assessment_year
       /\ \A n \in DOMAIN out :
            LET y == out[n].assessment_year
            IN /\ Len(out[n].all_sources) = Cardinality(Facts(y))
               /\ Range(out[n].all_sources) = {fn_in[i].source : i \in Facts(y)}

\* C31 witness: three facts, the older year first and two sources for the
\* newer year, merged into two records with the newer year first.
C31_Witness ==
  /\ Len(fn_in) = 3
  /\ fn_in[1].assessment_year = 2022
  /\ fn_in[2].assessment_year = 2023
  /\ fn_in[3].assessment_year = 2023
  /\ fn_in[2].source = "rew_graphql"
  /\ fn_in[3].source = "bc_assessment"
  /\ fn_out # <<>>
  /\ Len(fn_out[1]) = 2
  /\ fn_out[1][1].assessment_year = 2023
  /\ fn_out[1][1].all_sources = <<"rew_graphql", "bc_assessment">>


\* C32: merge_sales returns exactly one record for each (sale_date,
\* sale_price_cad) pair of its input (same-day sales at different prices stay
\* apart, same-day same-price sales become one), in descending order of
\* sale_date; a record's price_per_sqft is sale_price_cad / sqft of its
\* primary row when that row has a price and a sqft > 0, and null otherwise;
\* an empty input gives an empty list.  (Violated: a primary row with price 0
\* and a sqft gets null, not 0.)
C32_OneRecordPerDatePrice ==
  fn_out # <<>> =>
    LET out == fn_out[1]
        Keys == {<<fn_in[i].sale_date, fn_in[i].sale_price_cad>> :
                   i \in DOMAIN fn_in}
    IN /\ Len(out) = Cardinality(Keys)
       /\ \A key \in Keys :
            Cardinality({n \in DOMAIN out :
                           <<out[n].sale_date, out[n].sale_price_cad>> = key}) = 1
       /\ \A n \in 1..(Len(out) - 1) : out[n].sale_date >= out[n + 1].sale_date
       /\ \A n \in DOMAIN out :
            \E i \in DOMAIN fn_in :
              /\ fn_in[i].sale_date = out[n].sale_date
              /\ fn_in[i].sale_price_cad = out[n].sale_price_cad
              /\ fn_in[i].source = out[n].primary_source
              /\ out[n].price_per_sqft =
                   IF fn_in[i].sqft # NULL /\ fn_in[i].sqft > 0
                   THEN <<fn_in[i].sale_price_cad, fn_in[i].sqft>>
                   ELSE <<>>
       /\ fn_in = <<>> => out = <<>>


\* C33: group_assessments_by_source and group_sales_by_source split their
\* input by source: the result has one list for each source of the input,
\* every input fact is in the list of its own source exactly once and in no
\* other, nothing else is in any list, and each list is in descending order
\* of assessment year, resp. sale date.
C33_GroupsPartitionBySource ==
  fn_out # <<>> =>
    LET out == fn_out[1]
        rows == fn_in.rows
        Key(r) == IF fn_in.kind = "assessments" THEN r.assessment_year
                  ELSE r.sale_date
    IN /\ DOMAIN out = {rows[i].source : i \in DOMAIN rows}
       /\ \A s \in DOMAIN out :
            /\ \A n \in DOMAIN out[s] : out[s][n].source = s
            /\ Len(out[s]) = Cardinality({i \in DOMAIN rows : rows[i].source = s})
            /\ \A n \in 1..(Len(out[s]) - 1) : Key(out[s][n]) >= Key(out[s][n + 1])
       /\ \A i \in DOMAIN rows :
            /\ Cardinality({n \in DOMAIN out[rows[i].source] :
                             out[rows[i].source][n] = rows[i]}) = 1
            /\ \A s \in DOMAIN out \ {rows[i].source} :
                 \A n \in DOMAIN out[s] : out[s][n] # rows[i]

\* C33 witness: three sales, two from mls given oldest first and one from
\* land_title; the mls list comes back newest first.
C33_Witness ==
  /\ fn_in.kind = "sales"
  /\ Len(fn_in.rows) = 3
  /\ fn_in.rows[1].source = "mls" /\ fn_in.rows[1].sale_date = 20210501
  /\ fn_in.rows[2].source = "land_title"
  /\ fn_in.rows[3].source = "mls" /\ fn_in.rows[3].sale_date = 20220601
  /\ fn_out # <<>>
  /\ DOMAIN fn_out[1] = {"mls", "land_title"}
  /\ fn_out[1]["mls"] = <<fn_in.rows[3], fn_in.rows[1]>>


\* C34: when the fetch fails or the field map fails validation, the attempt
\* writes nothing: properties, listings, characteristics snapshots,
\* assessments and sales stay as they are, and in the queue only the item's
\* own row changes, to status error with the failure message.
C34_FailedAttemptPersistsNothing ==
  [][\A i \in Ids(queue) :
       (/\ queue[i].status = "scraping"
        /\ queue'[i].status = "error"
        /\ queue'[i].last_error \in {"Crawl failed",
                                     "Missing or invalid required fields"})
         => /\ properties' = properties
            /\ listings' = listings
            /\ tbl_characteristics' = tbl_characteristics
            /\ tbl_assessments' = tbl_assessments
            /\ tbl_sales' = tbl_sales
            /\ queue' = [queue EXCEPT ![i].status = "error",
                                      ![i].last_error = queue'[i].last_error]]_vars

\* C34 witness: an earlier attempt got as far as the snapshot, and the
\* retry failed validation: the item is in error with that message and the
\* rows of the earlier attempt are all there is.
C34_Witness ==
  /\ queue[1].status = "error"
  /\ queue[1].last_error = "Missing or invalid required fields"
  /\ queue[1].attempts = 2
  /\ fn_out = <<"raised">>
  /\ Len(properties) = 1
  /\ Len(listings) = 1
  /\ Len(tbl_characteristics) = 1
  /\ tbl_assessments = <<>>
  /\ fn_in.aux.assessments # <<>>


\* C35: ingestion is idempotent.  Once the item has been processed through
\* to the end, however many earlier attempts on the same content stopped
\* part-way, the database holds what one processing leaves: one Property, one
\* listing for the URL, one snapshot per (property, date, source), all of
\* them the day's single snapshot when every attempt ran the same day, and
\* one assessment and one sale per unique key of the page's history; the
\* snapshot that is already there is passed over and the item is done.
C35_IngestionIdempotent ==
  (fn_out # <<>> /\ fn_out[Len(fn_out)] = "ok") =>
    LET akeys == {<<1, fn_in.aux.assessments[i].assessment_year, "rew_graphql">> :
                    i \in DOMAIN fn_in.aux.assessments}
        skeys == {<<1, fn_in.aux.sales[i].sale_date,
                    fn_in.aux.sales[i].sale_price_cad, "rew_graphql">> :
                    i \in DOMAIN fn_in.aux.sales}
    IN /\ queue[1].status = "done"
       /\ Len(properties) = 1
       /\ properties[1].canonical_address = 1
       /\ Len(listings) = 1
       /\ listings[1].rew_url = queue[1].url
       /\ listings[1].property_id = 1
       /\ listings[1].beds = fn_in.beds
       /\ Len(tbl_characteristics) >= 1
       /\ \A i, j \in DOMAIN tbl_characteristics :
            (/\ tbl_characteristics[i].property_id = tbl_characteristics[j].property_id
             /\ tbl_characteristics[i].as_of_date = tbl_characteristics[j].as_of_date
             /\ tbl_characteristics[i].source = tbl_characteristics[j].source)
              => i = j
       /\ \A i \in DOMAIN tbl_characteristics :
            /\ tbl_characteristics[i].property_id = 1
            /\ tbl_characteristics[i].source = "rew"
            /\ tbl_characteristics[i].beds = fn_in.beds
       /\ now = 1 => Len(tbl_characteristics) = 1
       /\ Len(tbl_assessments) = Cardinality(akeys)
       /\ {<<tbl_assessments[i].property_id, tbl_assessments[i].assessment_year,
             tbl_assessments[i].source>> : i \in DOMAIN tbl_assessments} = akeys
       /\ Len(tbl_sales) = Cardinality(skeys)
       /\ {<<tbl_sales[i].property_id, tbl_sales[i].sale_date,
             tbl_sales[i].sale_price_cad, tbl_sales[i].source>> :
             i \in DOMAIN tbl_sales} = skeys

\* C35 witness: the first attempt stopped after its snapshot, the retry of
\* the same day ran to the end: one snapshot, both assessments, item done on
\* its second attempt.
C35_Witness ==
  /\ fn_out = <<"raised", "ok">>
  /\ now = 1
  /\ queue[1].status = "done"
  /\ queue[1].attempts = 2
  /\ Len(tbl_characteristics) = 1
  /\ Len(tbl_assessments) = 2
  /\ Len(tbl_sales) = 1
  /\ Len(properties) = 1
  /\ Len(listings) = 1


\* C36: an item is processed by at most one worker at a time.  A row in
\* status scraping is in the batch of one worker, the one whose claim
\* returned it (of none only when that worker's main() has ended), never of
\* two; and a row is marked done or error only by the worker that holds it,
\* in a step that changes no other worker.
C36_OneWorkerPerItem ==
  /\ [](\A i \in Ids(queue) :
          LET Holders == {w \in Workers : i \in batch[w]}
          IN /\ Cardinality(Holders) <= 1
             /\ (Holders # {}) => queue[i].status = "scraping"
             /\ (queue[i].status = "scraping" /\ Holders = {})
                  => \E w \in Workers : pc[w] = "crashed")
  /\ [][\A i \in Ids(queue) :
          (queue[i].status = "scraping" /\ queue'[i].status \in {"done", "error"})
            => \E w \in Workers :
                 /\ i \in batch[w]
                 /\ i \notin batch'[w]
                 /\ pc[w] \in {"fetch", "upsert"}
                 /\ cur[w].id \in {NULL, i}
                 /\ \A v \in Workers \ {w} :
                      /\ pc'[v] = pc[v]
                      /\ batch'[v] = batch[v]
                      /\ cur'[v] = cur[v]]_vars

\* C36 witness: both workers are in their batch loops at once, each on a row
\* of its own, and one of them has already failed its row once.
C36_Witness ==
  /\ Len(queue) = 2
  /\ batch[1] = {1}
  /\ batch[2] = {2}
  /\ pc[1] = "upsert"
  /\ pc[2] = "fetch"
  /\ queue[1].status = "scraping"
  /\ queue[2].status = "scraping"
  /\ queue[2].attempts = 2


\* C37: when two workers resolve at the same time a canonical address that
\* has no Property yet, one Property row is created and both ingestions go
\* on with the id of that row: a worker that leaves get_or_create_property
\* holds the id of the one row with its address, and goes on to its listing.
\* (Violated: the second INSERT raises IntegrityError and that worker's
\* main() ends, its item neither ingested nor marked.)
C37_ConcurrentResolveSharesProperty ==
  [][\A w \in Workers :
       (pc[w] = "resolve" /\ pc'[w] # "resolve")
         => /\ pc'[w] = "upsert"
            /\ cur'[w].prop \in DOMAIN properties'
            /\ properties'[cur'[w].prop].canonical_address = cur[w].addr
            /\ Cardinality({p \in DOMAIN properties' :
                 properties'[p].canonical_address = cur[w].addr}) = 1]_vars


\* C38: resolution creates Property rows and never deletes or changes one:
\* no step makes the properties table shorter or alters a row it holds, and
\* a get_or_create_property call whose canonical key is already in the table
\* returns the id of that row and leaves the whole table as it was, whatever
\* coordinates the call supplies.
C38_ResolutionNeverChangesProperties ==
  [][/\ Len(properties') >= Len(properties)
     /\ \A p \in DOMAIN properties : properties'[p] = properties[p]
     /\ (Len(fn_out') = Len(fn_out) + 1)
          => LET a == fn_in[Len(fn_out) + 1]
                 canonical == normalize_address(a.street, a.city, a.province,
                                                a.postal_code)
             IN PropertyConflict(properties, canonical)
                  => /\ properties' = properties
                     /\ fn_out'[Len(fn_out')] = SelectProperty(properties, canonical)]_vars

\* Two calls with two spellings of one address and different coordinates: one
\* row, returned twice, with the coordinates of the first call.
C38_Witness ==
  /\ Len(fn_out) = 2
  /\ Len(properties) = 1
  /\ fn_out[1] = 1 /\ fn_out[2] = 1
  /\ fn_in[1].street # fn_in[2].street
  /\ fn_in[1].lat # fn_in[2].lat
  /\ fn_in[1].lng # fn_in[2].lng
  /\ fn_in[2].lat # NULL /\ fn_in[2].lng # NULL
  /\ properties[1].lat = fn_in[1].lat
  /\ properties[1].lng = fn_in[1].lng

====
